---- MODULE Spec2Model ----
(***************************************************************************)
(* Model of the composite publish command (pkg/commands/compute/publish.go)*)
(* and of the dictionaries setup orchestrator (setup.Dictionaries).        *)
(*                                                                         *)
(* SpecPublish: flag parsing followed by one PublishCommand.Exec.          *)
(* SpecDict:    Dictionaries.Configure and Dictionaries.Create.            *)
(* SpecLifecycle: SpecDict with a caller that calls Configure or Create    *)
(*              again on the same instance.                                *)
(* SpecCmd:     one Exec of a resource command (list, describe, create,    *)
(*              update).                                                   *)
(* SpecInput:   the optional flags of healthcheck create, healthcheck      *)
(*              update and azure-blob update and the API input built from  *)
(*              them.                                                      *)
(***************************************************************************)
EXTENDS Integers, Sequences, FiniteSets, TLC

VARIABLES
    \* ---- publish ----
    c,            \* the PublishCommand's own fields
    supplied,     \* the flags present on the command line
    build,        \* the BuildCommand's fields written by publish
    deploy,       \* the DeployCommand's fields written by publish
    build0,       \* build as it was before PublishCommand.Exec started
    deploy0,      \* deploy as it was before PublishCommand.Exec started
    ppc,          \* position of PublishCommand.Exec
    buildCalls,   \* number of invocations of build.Exec
    deployCalls,  \* number of invocations of deploy.Exec
    buildErr,     \* what build.Exec returned ("pending" until it returns)
    deployErr,    \* what deploy.Exec returned ("pending" until it returns)
    ret,          \* what PublishCommand.Exec returned ("pending" until then)
    errLog,       \* Globals.ErrLog: the errors added, in order
    out,          \* what publish itself wrote to the output stream
    \* ---- dictionaries ----
    d,            \* the public fields of Dictionaries
    required,     \* d.required
    dpc,          \* position inside Configure / Create
    cfg,          \* the locals of the running Configure
    cre,          \* the locals of the running Create
    calls,        \* the calls made on the collaborators, in order
    configureRet, \* what Configure returned
    createRet,    \* what Create returned
    configured,   \* Configure has been called
    created,      \* Create has been called
    reentries,    \* calls of Configure or Create after the first of each
    \* ---- resource commands ----
    rcmd,         \* the command and the values of its flags
    rpc,          \* position of the command's Exec
    rret,         \* what Exec returned
    rcalls,       \* service resolutions and API client calls made, in order
    rout,         \* what was written to out, in order
    rlog,         \* Globals.ErrLog: the errors added with their context
    \* ---- API input of create and update commands ----
    ikind,        \* the command
    iflags,       \* its optional fields: WasSet and Value of each
    input,        \* the optional fields of the API input it builds
    ipc           \* "parse" while flags are parsed, "built" after

pvars == <<c, supplied, build, deploy, build0, deploy0, ppc, buildCalls,
           deployCalls, buildErr, deployErr, ret, errLog, out>>
dvars == <<d, required, dpc, cfg, cre, calls, configureRet, createRet,
           configured, created>>
cvars == <<rcmd, rpc, rret, rcalls, rout, rlog>>
ivars == <<ikind, iflags, input, ipc>>
vars == <<pvars, dvars, reentries, cvars, ivars>>

----------------------------------------------------------------------------
(* Bounds *)

\* at most this many flags are given on one publish command line
MaxFlags == 2
\* at most this many dictionaries are declared in [setup]
MaxDicts == 2
\* at most this many items are declared over all dictionaries
MaxItems == 3

----------------------------------------------------------------------------
(* Publish: values *)

\* error values a sub-command's Exec can return; "nil" is Go's nil error
Errors == {"e1", "e2"}

\* the flags registered by NewPublishCommand
OptionalFlags == {"comment", "domain", "include-source", "language", "package",
                  "package-name", "service-name", "version", "timeout"}
StatusFlags == {"status-check-code", "status-check-off", "status-check-path",
                "status-check-timeout"}
Flags == OptionalFlags \cup StatusFlags \cup {"service-id"}

\* the values a flag can be given on the command line
FlagValues(f) ==
    CASE f = "include-source"       -> {FALSE, TRUE}
      [] f = "timeout"              -> {0, 5}
      [] f = "status-check-code"    -> {-1, 0, 200}
      [] f = "status-check-off"     -> {FALSE, TRUE}
      [] f = "status-check-path"    -> {"", "/h"}
      [] f = "status-check-timeout" -> {-1, 0, 30}
      [] f = "service-id"           -> {"", "sid"}
      [] OTHER                      -> {"", "a"}

\* an unset cmd.OptionalString / OptionalInt / OptionalBool
Unset(zero) == [WasSet |-> FALSE, Value |-> zero]
IsSet(v) == [WasSet |-> TRUE, Value |-> v]

\* the PublishCommand as NewPublishCommand leaves it (with kingpin's
\* defaults for the flags that declare one)
NewPublishCommand ==
    [ includeSrc         |-> Unset(FALSE),
      lang               |-> Unset(""),
      packageName        |-> Unset(""),
      timeout            |-> Unset(0),
      comment            |-> Unset(""),
      domain             |-> Unset(""),
      pkg                |-> Unset(""),
      serviceName        |-> Unset(""),
      serviceVersion     |-> Unset(""),
      statusCheckCode    |-> 0,
      statusCheckOff     |-> FALSE,
      statusCheckPath    |-> "/",
      statusCheckTimeout |-> 120,
      manifest           |-> [ServiceID |-> ""] ]

\* the build command before publish runs: all fields zero, or all its own
BuildStates ==
    { [IncludeSrc |-> FALSE, Lang |-> "", PackageName |-> "", Timeout |-> 0,
       Manifest |-> [ServiceID |-> ""]],
      [IncludeSrc |-> TRUE, Lang |-> "own", PackageName |-> "own", Timeout |-> 9,
       Manifest |-> [ServiceID |-> "own"]] }

\* the deploy command before publish runs: all fields zero, or all its own
DeployStates ==
    { [Package |-> "", ServiceName |-> Unset(""), ServiceVersion |-> Unset(""),
       Domain |-> "", Comment |-> Unset(""), Manifest |-> [ServiceID |-> ""],
       StatusCheckCode |-> 0, StatusCheckOff |-> FALSE,
       StatusCheckTimeout |-> 0, StatusCheckPath |-> ""],
      [Package |-> "own", ServiceName |-> IsSet("own"),
       ServiceVersion |-> IsSet("own"), Domain |-> "own",
       Comment |-> IsSet("own"), Manifest |-> [ServiceID |-> "own"],
       StatusCheckCode |-> 404, StatusCheckOff |-> TRUE,
       StatusCheckTimeout |-> 60, StatusCheckPath |-> "/own"] }

----------------------------------------------------------------------------
(* Publish: operations *)

\* kingpin stores the value of flag f and runs its Action (Optional*.Set)
SetFlag(cmd, f, v) ==
    CASE f = "comment"              -> [cmd EXCEPT !.comment = IsSet(v)]
      [] f = "domain"               -> [cmd EXCEPT !.domain = IsSet(v)]
      [] f = "include-source"       -> [cmd EXCEPT !.includeSrc = IsSet(v)]
      [] f = "language"             -> [cmd EXCEPT !.lang = IsSet(v)]
      [] f = "package"              -> [cmd EXCEPT !.pkg = IsSet(v)]
      [] f = "package-name"         -> [cmd EXCEPT !.packageName = IsSet(v)]
      [] f = "service-id"           -> [cmd EXCEPT !.manifest.ServiceID = v]
      [] f = "service-name"         -> [cmd EXCEPT !.serviceName = IsSet(v)]
      [] f = "status-check-code"    -> [cmd EXCEPT !.statusCheckCode = v]
      [] f = "status-check-off"     -> [cmd EXCEPT !.statusCheckOff = v]
      [] f = "status-check-path"    -> [cmd EXCEPT !.statusCheckPath = v]
      [] f = "status-check-timeout" -> [cmd EXCEPT !.statusCheckTimeout = v]
      [] f = "version"              -> [cmd EXCEPT !.serviceVersion = IsSet(v)]
      [] f = "timeout"              -> [cmd EXCEPT !.timeout = IsSet(v)]

\* publish.go 87-100: reset the fields on the BuildCommand
CopyBuildFields(cmd, b) ==
    [ IncludeSrc  |-> IF cmd.includeSrc.WasSet THEN cmd.includeSrc.Value
                      ELSE b.IncludeSrc,
      Lang        |-> IF cmd.lang.WasSet THEN cmd.lang.Value ELSE b.Lang,
      PackageName |-> IF cmd.packageName.WasSet THEN cmd.packageName.Value
                      ELSE b.PackageName,
      Timeout     |-> IF cmd.timeout.WasSet THEN cmd.timeout.Value
                      ELSE b.Timeout,
      Manifest    |-> cmd.manifest ]

\* a domain copied whenever it is non-empty instead of whenever it was set
DeployDomainIfNonEmpty(cmd, dp) ==
    IF cmd.domain.Value # "" THEN cmd.domain.Value ELSE dp.Domain

\* publish.go 120-122
DeployDomain(cmd, dp) ==
    IF cmd.domain.WasSet THEN cmd.domain.Value ELSE dp.Domain

\* a status-check code copied whenever it is not negative
DeployStatusCheckCodeNonNegative(cmd, dp) ==
    IF cmd.statusCheckCode >= 0 THEN cmd.statusCheckCode ELSE dp.StatusCheckCode

\* publish.go 127-129
DeployStatusCheckCode(cmd, dp) ==
    IF cmd.statusCheckCode > 0 THEN cmd.statusCheckCode ELSE dp.StatusCheckCode

\* a status-check-off copied unconditionally
DeployStatusCheckOffAlways(cmd, dp) == cmd.statusCheckOff

\* publish.go 130-132
DeployStatusCheckOff(cmd, dp) ==
    IF cmd.statusCheckOff THEN cmd.statusCheckOff ELSE dp.StatusCheckOff

\* publish.go 110-136: reset the fields on the DeployCommand
CopyDeployFields(cmd, dp) ==
    [ Package            |-> IF cmd.pkg.WasSet THEN cmd.pkg.Value ELSE dp.Package,
      ServiceName        |-> IF cmd.serviceName.WasSet THEN cmd.serviceName
                             ELSE dp.ServiceName,
      ServiceVersion     |-> IF cmd.serviceVersion.WasSet THEN cmd.serviceVersion
                             ELSE dp.ServiceVersion,
      Domain             |-> DeployDomain(cmd, dp),
      Comment            |-> IF cmd.comment.WasSet THEN cmd.comment
                             ELSE dp.Comment,
      Manifest           |-> cmd.manifest,
      StatusCheckCode    |-> DeployStatusCheckCode(cmd, dp),
      StatusCheckOff     |-> DeployStatusCheckOff(cmd, dp),
      StatusCheckTimeout |-> IF cmd.statusCheckTimeout > 0
                             THEN cmd.statusCheckTimeout
                             ELSE dp.StatusCheckTimeout,
      StatusCheckPath    |-> cmd.statusCheckPath ]

\* the command line carries flag f with value v
ParseFlag(f, v) ==
    /\ ppc = "parse"
    /\ f \notin supplied
    /\ Cardinality(supplied) < MaxFlags
    /\ c' = SetFlag(c, f, v)
    /\ supplied' = supplied \cup {f}
    /\ UNCHANGED <<build, deploy, build0, deploy0, ppc, buildCalls, deployCalls,
                   buildErr, deployErr, ret, errLog, out>>
    /\ UNCHANGED <<dvars, reentries, cvars, ivars>>

\* an Exec that resets the fields of both commands before it calls build.Exec
PublishExecResetsDeployFirst ==
    /\ ppc = "parse"
    /\ build' = CopyBuildFields(c, build)
    /\ deploy' = CopyDeployFields(c, deploy)
    /\ buildCalls' = buildCalls + 1
    /\ ppc' = "build"
    /\ UNCHANGED <<c, supplied, build0, deploy0, deployCalls, buildErr,
                   deployErr, ret, errLog, out>>
    /\ UNCHANGED <<dvars, reentries, cvars, ivars>>

\* PublishCommand.Exec up to the call of build.Exec
PublishExec ==
    /\ ppc = "parse"
    /\ build' = CopyBuildFields(c, build)
    /\ buildCalls' = buildCalls + 1
    /\ ppc' = "build"
    /\ UNCHANGED <<c, supplied, deploy, build0, deploy0, deployCalls, buildErr,
                   deployErr, ret, errLog, out>>
    /\ UNCHANGED <<dvars, reentries, cvars, ivars>>

\* a failed build that is logged but does not end Exec: deploy runs anyway
BuildFailsContinues(err) ==
    /\ ppc = "build"
    /\ buildErr' = err
    /\ errLog' = Append(errLog, err)
    /\ out' = Append(out, "\n")
    /\ deploy' = CopyDeployFields(c, deploy)
    /\ deployCalls' = deployCalls + 1
    /\ ppc' = "deploy"
    /\ UNCHANGED <<c, supplied, build, build0, deploy0, buildCalls, deployErr,
                   ret>>
    /\ UNCHANGED <<dvars, reentries, cvars, ivars>>

\* build.Exec returned err: publish.go 103-106
BuildFails(err) ==
    /\ ppc = "build"
    /\ buildErr' = err
    /\ errLog' = Append(errLog, err)
    /\ ret' = err
    /\ ppc' = "done"
    /\ UNCHANGED <<c, supplied, build, deploy, build0, deploy0, buildCalls,
                   deployCalls, deployErr, out>>
    /\ UNCHANGED <<dvars, reentries, cvars, ivars>>

\* a successful build after which Exec returns without deploying
BuildSucceedsSkipsDeploy ==
    /\ ppc = "build"
    /\ buildErr' = "nil"
    /\ ret' = "nil"
    /\ ppc' = "done"
    /\ UNCHANGED <<c, supplied, build, deploy, build0, deploy0, buildCalls,
                   deployCalls, deployErr, errLog, out>>
    /\ UNCHANGED <<dvars, reentries, cvars, ivars>>

\* build.Exec returned nil: publish.go 108-138, up to the call of deploy.Exec
BuildSucceeds ==
    /\ ppc = "build"
    /\ buildErr' = "nil"
    /\ out' = Append(out, "\n")
    /\ deploy' = CopyDeployFields(c, deploy)
    /\ deployCalls' = deployCalls + 1
    /\ ppc' = "deploy"
    /\ UNCHANGED <<c, supplied, build, build0, deploy0, buildCalls, deployErr,
                   ret, errLog>>
    /\ UNCHANGED <<dvars, reentries, cvars, ivars>>

\* a failed deploy whose error is replaced by another one on return
DeployFailsOtherError(err) ==
    /\ ppc = "deploy"
    /\ deployErr' = err
    /\ errLog' = Append(errLog, err)
    /\ ret' = CHOOSE e \in Errors : e # err
    /\ ppc' = "done"
    /\ UNCHANGED <<c, supplied, build, deploy, build0, deploy0, buildCalls,
                   deployCalls, buildErr, out>>
    /\ UNCHANGED <<dvars, reentries, cvars, ivars>>

\* a failed deploy that is returned without being added to the log
DeployFailsUnlogged(err) ==
    /\ ppc = "deploy"
    /\ deployErr' = err
    /\ ret' = err
    /\ ppc' = "done"
    /\ UNCHANGED <<c, supplied, build, deploy, build0, deploy0, buildCalls,
                   deployCalls, buildErr, errLog, out>>
    /\ UNCHANGED <<dvars, reentries, cvars, ivars>>

\* deploy.Exec returned err: publish.go 139-142
DeployFails(err) ==
    /\ ppc = "deploy"
    /\ deployErr' = err
    /\ errLog' = Append(errLog, err)
    /\ ret' = err
    /\ ppc' = "done"
    /\ UNCHANGED <<c, supplied, build, deploy, build0, deploy0, buildCalls,
                   deployCalls, buildErr, out>>
    /\ UNCHANGED <<dvars, reentries, cvars, ivars>>

\* deploy.Exec returned nil: publish.go 144
DeploySucceeds ==
    /\ ppc = "deploy"
    /\ deployErr' = "nil"
    /\ ret' = "nil"
    /\ ppc' = "done"
    /\ UNCHANGED <<c, supplied, build, deploy, build0, deploy0, buildCalls,
                   deployCalls, buildErr, errLog, out>>
    /\ UNCHANGED <<dvars, reentries, cvars, ivars>>

----------------------------------------------------------------------------
(* Dictionaries: values *)

\* names of declared dictionaries and keys of declared items
NamePool == <<"A", "B", "C", "D">>
KeyPool == <<"k1", "k2", "k3", "k4", "k5">>

\* an item's declared default value (manifest.SetupDictionaryItem.Value)
Defaults == {"", "dflt"}

\* a line read by text.Input
Lines == {"", "typed"}

\* errors of the collaborators
InputErrors == {"ioErr"}
SpinnerErrors == {"spinErr"}
APIErrors == {"apiErr"}

\* results of Configure and Create
Nil == [kind |-> "nil"]
Plain(e) == [kind |-> "error", err |-> e]
Wrapped(msg, e) == [kind |-> "wrapped", msg |-> msg, cause |-> e]
Pending == [kind |-> "pending"]
\* errors.RemediationError{Inner, Remediation}
RemediationError(inner, remediation) ==
    [kind |-> "remediation", inner |-> inner, remediation |-> remediation]

\* the items of one declared dictionary: key -> declared default
ItemMaps ==
    UNION { [{KeyPool[k] : k \in 1..n} -> Defaults] : n \in 0..MaxItems }

RECURSIVE TotalItems(_, _)
TotalItems(setup, names) ==
    IF names = {} THEN 0
    ELSE LET n == CHOOSE x \in names : TRUE
         IN Cardinality(DOMAIN setup[n]) + TotalItems(setup, names \ {n})

\* a number that identifies an item map: its size and which of its items
\* declare a default
RECURSIVE DefaultsCode(_, _)
DefaultsCode(items, k) ==
    IF k = 0 THEN 0
    ELSE (IF items[KeyPool[k]] # "" THEN 2^(k-1) ELSE 0) + DefaultsCode(items, k-1)

ItemsCode(items) ==
    LET n == Cardinality(DOMAIN items) IN 2^n + DefaultsCode(items, n)

\* the [setup.dictionaries] sections: dictionary name -> items. Dictionary
\* names are interchangeable (Configure ranges over them in any order), so of
\* the sections that differ only by a renaming of the dictionaries the one
\* with its item maps in non-increasing order is kept.
Setups ==
    UNION { { s \in [{NamePool[i] : i \in 1..nd} -> ItemMaps] :
                /\ TotalItems(s, DOMAIN s) <= MaxItems
                /\ \A i \in 1..(nd-1) :
                       ItemsCode(s[NamePool[i]]) >= ItemsCode(s[NamePool[i+1]]) }
            : nd \in 0..MaxDicts }

\* the locals of Configure and Create while they are not running
NoConfigure == [todo |-> {}, name |-> "", keys |-> {}, items |-> <<>>]
NoCreate == [i |-> 0, j |-> 0, id |-> 0, apiErr |-> "nil"]

Interactive(dd) == ~dd.AcceptDefaults /\ ~dd.NonInteractive

----------------------------------------------------------------------------
(* Dictionaries.Configure *)

\* Configure is called: the range over d.Setup begins
ConfigureCall ==
    /\ dpc = "idle"
    /\ ~configured
    /\ configured' = TRUE
    /\ cfg' = [NoConfigure EXCEPT !.todo = DOMAIN d.Setup]
    /\ configureRet' = Pending
    /\ dpc' = "cfgDict"
    /\ UNCHANGED <<d, required, cre, calls, created>>
    /\ UNCHANGED <<createRet, pvars, reentries, cvars, ivars>>

\* a Configure that creates each dictionary as soon as it reaches it
ConfigureDictCreates(name) ==
    /\ dpc = "cfgDict"
    /\ name \in cfg.todo
    /\ calls' = Append(calls, [op |-> "CreateDictionary",
                               ServiceID |-> d.ServiceID,
                               ServiceVersion |-> d.ServiceVersion,
                               Name |-> name, id |-> 0, res |-> "nil"])
    /\ IF DOMAIN d.Setup[name] = {}
       THEN /\ required' = Append(required, [Name |-> name, Items |-> <<>>])
            /\ cfg' = [cfg EXCEPT !.todo = @ \ {name}]
            /\ dpc' = "cfgDict"
       ELSE /\ required' = required
            /\ cfg' = [todo |-> cfg.todo \ {name}, name |-> name,
                       keys |-> DOMAIN d.Setup[name], items |-> <<>>]
            /\ dpc' = "cfgItem"
    /\ UNCHANGED <<d, cre, configureRet, configured, created>>
    /\ UNCHANGED <<createRet, pvars, reentries, cvars, ivars>>

\* the range over d.Setup yields name (in no particular order); a dictionary
\* without items is appended to d.required at once
ConfigureDict(name) ==
    /\ dpc = "cfgDict"
    /\ name \in cfg.todo
    /\ IF DOMAIN d.Setup[name] = {}
       THEN /\ required' = Append(required, [Name |-> name, Items |-> <<>>])
            /\ cfg' = [cfg EXCEPT !.todo = @ \ {name}]
            /\ dpc' = "cfgDict"
       ELSE /\ required' = required
            /\ cfg' = [todo |-> cfg.todo \ {name}, name |-> name,
                       keys |-> DOMAIN d.Setup[name], items |-> <<>>]
            /\ dpc' = "cfgItem"
    /\ UNCHANGED <<d, cre, calls, configureRet, configured, created>>
    /\ UNCHANGED <<createRet, pvars, reentries, cvars, ivars>>

\* an item resolved to the declared default only, "example" never used
ResolveValueNoExample(item, value) ==
    IF value = "" THEN item ELSE value

\* the value of an item whose prompt was answered with value ("" when no
\* prompt was shown): lines 218-221 and 243-245
ResolveValue(item, value) ==
    LET dv == IF item # "" THEN item ELSE "example"
    IN IF value = "" THEN dv ELSE value

\* the items of the current dictionary after key has been resolved to value,
\* and the append to d.required after the last one
ConfigureAppend(key, value) ==
    LET items == Append(cfg.items, [Key |-> key, Value |-> value])
    IN IF cfg.keys = {key}
       THEN /\ required' = Append(required, [Name |-> cfg.name, Items |-> items])
            /\ cfg' = [cfg EXCEPT !.keys = {}, !.items = <<>>, !.name = ""]
            /\ dpc' = "cfgDict"
       ELSE /\ required' = required
            /\ cfg' = [cfg EXCEPT !.keys = @ \ {key}, !.items = items]
            /\ dpc' = "cfgItem"

\* one item in accept-defaults or non-interactive mode: no prompt
ConfigureItemDefault(key) ==
    /\ dpc = "cfgItem"
    /\ key \in cfg.keys
    /\ ~Interactive(d)
    /\ ConfigureAppend(key, ResolveValue(d.Setup[cfg.name][key], ""))
    /\ UNCHANGED <<d, cre, calls, configureRet, configured, created>>
    /\ UNCHANGED <<createRet, pvars, reentries, cvars, ivars>>

\* one item in interactive mode: text.Input returns line
ConfigureItemPrompt(key, line) ==
    /\ dpc = "cfgItem"
    /\ key \in cfg.keys
    /\ Interactive(d)
    /\ calls' = Append(calls, [op |-> "Input", name |-> cfg.name, key |-> key,
                               line |-> line, res |-> "nil"])
    /\ ConfigureAppend(key, ResolveValue(d.Setup[cfg.name][key], line))
    /\ UNCHANGED <<d, cre, configureRet, configured, created>>
    /\ UNCHANGED <<createRet, pvars, reentries, cvars, ivars>>

\* a failed text.Input that is taken for an empty line
ConfigureItemInputFailureIgnored(key, err) ==
    /\ dpc = "cfgItem"
    /\ key \in cfg.keys
    /\ Interactive(d)
    /\ calls' = Append(calls, [op |-> "Input", name |-> cfg.name, key |-> key,
                               line |-> "", res |-> err])
    /\ ConfigureAppend(key, ResolveValue(d.Setup[cfg.name][key], ""))
    /\ UNCHANGED <<d, cre, configureRet, configured, created>>
    /\ UNCHANGED <<createRet, pvars, reentries, cvars, ivars>>

\* a failed prompt that leaves the items resolved so far in d.required
ConfigureItemInputFailsKeepsPartial(key, err) ==
    /\ dpc = "cfgItem"
    /\ key \in cfg.keys
    /\ Interactive(d)
    /\ calls' = Append(calls, [op |-> "Input", name |-> cfg.name, key |-> key,
                               line |-> "", res |-> err])
    /\ required' = Append(required, [Name |-> cfg.name, Items |-> cfg.items])
    /\ configureRet' = Wrapped("error reading prompt input", err)
    /\ cfg' = NoConfigure
    /\ dpc' = "idle"
    /\ UNCHANGED <<d, cre, configured, created>>
    /\ UNCHANGED <<createRet, pvars, reentries, cvars, ivars>>

\* one item in interactive mode: text.Input fails and Configure returns
ConfigureItemInputFails(key, err) ==
    /\ dpc = "cfgItem"
    /\ key \in cfg.keys
    /\ Interactive(d)
    /\ calls' = Append(calls, [op |-> "Input", name |-> cfg.name, key |-> key,
                               line |-> "", res |-> err])
    /\ configureRet' = Wrapped("error reading prompt input", err)
    /\ cfg' = NoConfigure
    /\ dpc' = "idle"
    /\ UNCHANGED <<d, required, cre, configured, created>>
    /\ UNCHANGED <<createRet, pvars, reentries, cvars, ivars>>

\* the range over d.Setup is exhausted: Configure returns nil
ConfigureReturn ==
    /\ dpc = "cfgDict"
    /\ cfg.todo = {}
    /\ configureRet' = Nil
    /\ cfg' = NoConfigure
    /\ dpc' = "idle"
    /\ UNCHANGED <<d, required, cre, calls, configured, created>>
    /\ UNCHANGED <<createRet, pvars, reentries, cvars, ivars>>

----------------------------------------------------------------------------
(* Dictionaries.Create *)

\* Create returns r
CreateReturns(r) ==
    /\ createRet' = r
    /\ cre' = NoCreate
    /\ dpc' = "idle"

\* the flow after the work on required[cre.i] is complete: the next
\* dictionary's Spinner.Start, or the end of the range
NextDictionary ==
    /\ cre' = [cre EXCEPT !.i = @ + 1, !.j = 0, !.id = 0]
    /\ dpc' = "dictStart"
    /\ UNCHANGED createRet

\* a Spinner that is only missed once there is a dictionary to create
CreateNoSpinnerNoticedLate ==
    /\ dpc = "idle"
    /\ ~created
    /\ ~d.Spinner
    /\ created' = TRUE
    /\ IF required = <<>>
       THEN CreateReturns(Nil)
       ELSE CreateReturns(RemediationError("internal logic error", "BugRemediation"))
    /\ UNCHANGED <<d, required, cfg, calls, configured>>
    /\ UNCHANGED <<configureRet, pvars, reentries, cvars, ivars>>

\* Create is called without a Spinner: lines 264-269
CreateNoSpinner ==
    /\ dpc = "idle"
    /\ ~created
    /\ ~d.Spinner
    /\ created' = TRUE
    /\ CreateReturns(RemediationError("internal logic error", "BugRemediation"))
    /\ UNCHANGED <<d, required, cfg, calls, configured>>
    /\ UNCHANGED <<configureRet, pvars, reentries, cvars, ivars>>

\* Create is called with a Spinner: the range over d.required begins
CreateCall ==
    /\ dpc = "idle"
    /\ ~created
    /\ d.Spinner
    /\ created' = TRUE
    /\ cre' = [NoCreate EXCEPT !.i = 1]
    /\ createRet' = Pending
    /\ dpc' = "dictStart"
    /\ UNCHANGED <<d, required, cfg, calls, configured>>
    /\ UNCHANGED <<configureRet, pvars, reentries, cvars, ivars>>

\* the range over d.required is exhausted: line 332
CreateReturnNil ==
    /\ dpc = "dictStart"
    /\ cre.i > Len(required)
    /\ CreateReturns(Nil)
    /\ UNCHANGED <<d, required, cfg, calls, configured, created>>
    /\ UNCHANGED <<configureRet, pvars, reentries, cvars, ivars>>

\* a Spinner.Start that precedes the test of the range
DictStartBeforeRange(res) ==
    /\ dpc = "dictStart"
    /\ calls' = Append(calls, [op |-> "Start", res |-> res])
    /\ IF res # "nil"
       THEN CreateReturns(Plain(res))
       ELSE dpc' = "dictAPI" /\ UNCHANGED <<cre, createRet>>
    /\ UNCHANGED <<d, required, cfg, configured, created>>
    /\ UNCHANGED <<configureRet, pvars, reentries, cvars, ivars>>

\* Spinner.Start for a dictionary, lines 272-275
DictStart(res) ==
    /\ dpc = "dictStart"
    /\ cre.i <= Len(required)
    /\ calls' = Append(calls, [op |-> "Start", res |-> res])
    /\ IF res # "nil"
       THEN CreateReturns(Plain(res))
       ELSE dpc' = "dictAPI" /\ UNCHANGED <<cre, createRet>>
    /\ UNCHANGED <<d, required, cfg, configured, created>>
    /\ UNCHANGED <<configureRet, pvars, reentries, cvars, ivars>>

\* an identifier the API has not handed out before
FreshID == Cardinality({k \in 1..Len(calls) :
                           calls[k].op = "CreateDictionary" /\ calls[k].res = "nil"}) + 1

\* a failed CreateDictionary after which Create goes on with the items
DictCreateFailureIgnored(res) ==
    /\ dpc = "dictAPI"
    /\ calls' = Append(calls, [op |-> "CreateDictionary",
                               ServiceID |-> d.ServiceID,
                               ServiceVersion |-> d.ServiceVersion,
                               Name |-> required[cre.i].Name,
                               id |-> IF res = "nil" THEN FreshID ELSE 0,
                               res |-> res])
    /\ cre' = [cre EXCEPT !.id = IF res = "nil" THEN FreshID ELSE 0]
    /\ dpc' = "dictStop"
    /\ UNCHANGED <<d, required, cfg, createRet, configured, created>>
    /\ UNCHANGED <<configureRet, pvars, reentries, cvars, ivars>>

\* APIClient.CreateDictionary, lines 279-284
DictCreate(res) ==
    /\ dpc = "dictAPI"
    /\ calls' = Append(calls, [op |-> "CreateDictionary",
                               ServiceID |-> d.ServiceID,
                               ServiceVersion |-> d.ServiceVersion,
                               Name |-> required[cre.i].Name,
                               id |-> IF res = "nil" THEN FreshID ELSE 0,
                               res |-> res])
    /\ IF res # "nil"
       THEN /\ cre' = [cre EXCEPT !.apiErr = res]
            /\ dpc' = "dictStopFail"
       ELSE /\ cre' = [cre EXCEPT !.id = FreshID]
            /\ dpc' = "dictStop"
    /\ UNCHANGED <<d, required, cfg, createRet, configured, created>>
    /\ UNCHANGED <<configureRet, pvars, reentries, cvars, ivars>>

\* Spinner.StopFail after a failed CreateDictionary, lines 285-290. The
\* result of StopFail is declared as a new err inside the if block (line
\* 286), which hides the err of CreateDictionary: the %w of line 290 wraps
\* the result of StopFail, nil at that point.
DictStopFail(res) ==
    /\ dpc = "dictStopFail"
    /\ calls' = Append(calls, [op |-> "StopFail", res |-> res])
    /\ IF res # "nil"
       THEN CreateReturns(Plain(res))
       ELSE CreateReturns(Wrapped("error creating dictionary", res))
    /\ UNCHANGED <<d, required, cfg, configured, created>>
    /\ UNCHANGED <<configureRet, pvars, reentries, cvars, ivars>>

\* a Stop whose failure is not looked at
DictStopFailureIgnored(res) ==
    /\ dpc = "dictStop"
    /\ calls' = Append(calls, [op |-> "Stop", res |-> res])
    /\ IF Len(required[cre.i].Items) > 0
       THEN /\ cre' = [cre EXCEPT !.j = 1]
            /\ dpc' = "itemStart"
            /\ UNCHANGED createRet
       ELSE NextDictionary
    /\ UNCHANGED <<d, required, cfg, configured, created>>
    /\ UNCHANGED <<configureRet, pvars, reentries, cvars, ivars>>

\* Spinner.Stop after a successful CreateDictionary, lines 293-299
DictStop(res) ==
    /\ dpc = "dictStop"
    /\ calls' = Append(calls, [op |-> "Stop", res |-> res])
    /\ IF res # "nil"
       THEN CreateReturns(Plain(res))
       ELSE IF Len(required[cre.i].Items) > 0
            THEN /\ cre' = [cre EXCEPT !.j = 1]
                 /\ dpc' = "itemStart"
                 /\ UNCHANGED createRet
            ELSE NextDictionary
    /\ UNCHANGED <<d, required, cfg, configured, created>>
    /\ UNCHANGED <<configureRet, pvars, reentries, cvars, ivars>>

\* Spinner.Start for an item, lines 301-304
ItemStart(res) ==
    /\ dpc = "itemStart"
    /\ calls' = Append(calls, [op |-> "Start", res |-> res])
    /\ IF res # "nil"
       THEN CreateReturns(Plain(res))
       ELSE dpc' = "itemAPI" /\ UNCHANGED <<cre, createRet>>
    /\ UNCHANGED <<d, required, cfg, configured, created>>
    /\ UNCHANGED <<configureRet, pvars, reentries, cvars, ivars>>

\* a failed CreateDictionaryItem after which Create goes on with the next item
ItemCreateFailureIgnored(res) ==
    /\ dpc = "itemAPI"
    /\ calls' = Append(calls, [op |-> "CreateDictionaryItem",
                               ServiceID |-> d.ServiceID,
                               DictionaryID |-> cre.id,
                               ItemKey |-> required[cre.i].Items[cre.j].Key,
                               ItemValue |-> required[cre.i].Items[cre.j].Value,
                               res |-> res])
    /\ dpc' = "itemStop"
    /\ UNCHANGED <<d, required, cfg, cre, createRet, configured, created>>
    /\ UNCHANGED <<configureRet, pvars, reentries, cvars, ivars>>

\* a CreateDictionaryItem that sends the fallback value, not the stored one
ItemCreateSendsExample(res) ==
    /\ dpc = "itemAPI"
    /\ calls' = Append(calls, [op |-> "CreateDictionaryItem",
                               ServiceID |-> d.ServiceID,
                               DictionaryID |-> cre.id,
                               ItemKey |-> required[cre.i].Items[cre.j].Key,
                               ItemValue |-> "example",
                               res |-> res])
    /\ IF res # "nil"
       THEN /\ cre' = [cre EXCEPT !.apiErr = res]
            /\ dpc' = "itemStopFail"
       ELSE /\ cre' = cre
            /\ dpc' = "itemStop"
    /\ UNCHANGED <<d, required, cfg, createRet, configured, created>>
    /\ UNCHANGED <<configureRet, pvars, reentries, cvars, ivars>>

\* a failed CreateDictionaryItem that is attempted a second time
ItemCreateRetried(res) ==
    LET call == [op |-> "CreateDictionaryItem",
                 ServiceID |-> d.ServiceID,
                 DictionaryID |-> cre.id,
                 ItemKey |-> required[cre.i].Items[cre.j].Key,
                 ItemValue |-> required[cre.i].Items[cre.j].Value,
                 res |-> res]
    IN /\ dpc = "itemAPI"
       /\ IF res # "nil"
          THEN /\ calls' = calls \o <<call, call>>
               /\ cre' = [cre EXCEPT !.apiErr = res]
               /\ dpc' = "itemStopFail"
          ELSE /\ calls' = Append(calls, call)
               /\ cre' = cre
               /\ dpc' = "itemStop"
       /\ UNCHANGED <<d, required, cfg, createRet, configured, created>>
       /\ UNCHANGED <<configureRet, pvars, reentries, cvars, ivars>>

\* a CreateDictionaryItem that is always sent to the first dictionary created
ItemCreateFirstDictionary(res) ==
    /\ dpc = "itemAPI"
    /\ calls' = Append(calls, [op |-> "CreateDictionaryItem",
                               ServiceID |-> d.ServiceID,
                               DictionaryID |-> 1,
                               ItemKey |-> required[cre.i].Items[cre.j].Key,
                               ItemValue |-> required[cre.i].Items[cre.j].Value,
                               res |-> res])
    /\ IF res # "nil"
       THEN /\ cre' = [cre EXCEPT !.apiErr = res]
            /\ dpc' = "itemStopFail"
       ELSE /\ cre' = cre
            /\ dpc' = "itemStop"
    /\ UNCHANGED <<d, required, cfg, createRet, configured, created>>
    /\ UNCHANGED <<configureRet, pvars, reentries, cvars, ivars>>

\* APIClient.CreateDictionaryItem, lines 308-314
ItemCreate(res) ==
    /\ dpc = "itemAPI"
    /\ calls' = Append(calls, [op |-> "CreateDictionaryItem",
                               ServiceID |-> d.ServiceID,
                               DictionaryID |-> cre.id,
                               ItemKey |-> required[cre.i].Items[cre.j].Key,
                               ItemValue |-> required[cre.i].Items[cre.j].Value,
                               res |-> res])
    /\ IF res # "nil"
       THEN /\ cre' = [cre EXCEPT !.apiErr = res]
            /\ dpc' = "itemStopFail"
       ELSE /\ cre' = cre
            /\ dpc' = "itemStop"
    /\ UNCHANGED <<d, required, cfg, createRet, configured, created>>
    /\ UNCHANGED <<configureRet, pvars, reentries, cvars, ivars>>

\* a failed CreateDictionaryItem reported without stopping the Spinner
ItemStopFailSkipped(res) ==
    /\ dpc = "itemStopFail"
    /\ calls' = calls
    /\ CreateReturns(Wrapped("error creating dictionary item", "nil"))
    /\ UNCHANGED <<d, required, cfg, configured, created>>
    /\ UNCHANGED <<configureRet, pvars, reentries, cvars, ivars>>

\* Spinner.StopFail after a failed CreateDictionaryItem, lines 315-320; the
\* err of line 316 hides the err of CreateDictionaryItem in the same way
ItemStopFail(res) ==
    /\ dpc = "itemStopFail"
    /\ calls' = Append(calls, [op |-> "StopFail", res |-> res])
    /\ IF res # "nil"
       THEN CreateReturns(Plain(res))
       ELSE CreateReturns(Wrapped("error creating dictionary item", res))
    /\ UNCHANGED <<d, required, cfg, configured, created>>
    /\ UNCHANGED <<configureRet, pvars, reentries, cvars, ivars>>

\* Spinner.Stop after a successful CreateDictionaryItem, lines 323-328
ItemStop(res) ==
    /\ dpc = "itemStop"
    /\ calls' = Append(calls, [op |-> "Stop", res |-> res])
    /\ IF res # "nil"
       THEN CreateReturns(Plain(res))
       ELSE IF cre.j < Len(required[cre.i].Items)
            THEN /\ cre' = [cre EXCEPT !.j = @ + 1]
                 /\ dpc' = "itemStart"
                 /\ UNCHANGED createRet
            ELSE NextDictionary
    /\ UNCHANGED <<d, required, cfg, configured, created>>
    /\ UNCHANGED <<configureRet, pvars, reentries, cvars, ivars>>

\* a Predefined that asks for more than one dictionary
PredefinedMoreThanOne(dd) == Cardinality(DOMAIN dd.Setup) > 1

\* Dictionaries.Predefined, lines 337-339
Predefined(dd) == Cardinality(DOMAIN dd.Setup) > 0

----------------------------------------------------------------------------
(* Idle states of one half while the other half runs *)

DictIdle ==
    /\ d = [Setup |-> <<>>, AcceptDefaults |-> FALSE, NonInteractive |-> FALSE,
            Spinner |-> TRUE, ServiceID |-> "sid", ServiceVersion |-> 1]
    /\ required = <<>>
    /\ dpc = "idle"
    /\ cfg = NoConfigure
    /\ cre = NoCreate
    /\ calls = <<>>
    /\ configureRet = Pending
    /\ createRet = Pending
    /\ configured = FALSE
    /\ created = FALSE
    /\ reentries = 0

InputIdle ==
    /\ ikind = ""
    /\ iflags = <<>>
    /\ input = <<>>
    /\ ipc = "parse"

CmdIdle ==
    /\ rcmd = [kind |-> "", verbose |-> FALSE, json |-> FALSE, file |-> FALSE,
               key |-> "", value |-> "", items |-> 0]
    /\ rpc = "start"
    /\ rret = Pending
    /\ rcalls = <<>>
    /\ rout = <<>>
    /\ rlog = <<>>

----------------------------------------------------------------------------
(* The publish specification *)

PublishInit ==
    /\ c = NewPublishCommand
    /\ supplied = {}
    /\ build0 \in BuildStates
    /\ deploy0 \in DeployStates
    /\ build = build0
    /\ deploy = deploy0
    /\ ppc = "parse"
    /\ buildCalls = 0
    /\ deployCalls = 0
    /\ buildErr = "pending"
    /\ deployErr = "pending"
    /\ ret = "pending"
    /\ errLog = <<>>
    /\ out = <<>>
    /\ DictIdle
    /\ CmdIdle
    /\ InputIdle

PublishNext ==
    \/ \E f \in Flags : \E v \in FlagValues(f) : ParseFlag(f, v)
    \/ PublishExec
    \/ \E err \in Errors : BuildFails(err)
    \/ BuildSucceeds
    \/ \E err \in Errors : DeployFails(err)
    \/ DeploySucceeds

SpecPublish == PublishInit /\ [][PublishNext]_vars

PublishIdle ==
    /\ c = NewPublishCommand
    /\ supplied = {}
    /\ build0 = CHOOSE b \in BuildStates : ~b.IncludeSrc
    /\ deploy0 = CHOOSE dp \in DeployStates : ~dp.StatusCheckOff
    /\ build = build0
    /\ deploy = deploy0
    /\ ppc = "parse"
    /\ buildCalls = 0
    /\ deployCalls = 0
    /\ buildErr = "pending"
    /\ deployErr = "pending"
    /\ ret = "pending"
    /\ errLog = <<>>
    /\ out = <<>>

----------------------------------------------------------------------------
(* The dictionaries specification *)

DictInit ==
    /\ \E s \in Setups, ad \in BOOLEAN, ni \in BOOLEAN, sp \in BOOLEAN :
           d = [Setup |-> s, AcceptDefaults |-> ad, NonInteractive |-> ni,
                Spinner |-> sp, ServiceID |-> "sid", ServiceVersion |-> 1]
    /\ required = <<>>
    /\ dpc = "idle"
    /\ cfg = NoConfigure
    /\ cre = NoCreate
    /\ calls = <<>>
    /\ configureRet = Pending
    /\ createRet = Pending
    /\ configured = FALSE
    /\ created = FALSE
    /\ reentries = 0
    /\ PublishIdle
    /\ CmdIdle
    /\ InputIdle

DictNext ==
    \/ ConfigureCall
    \/ \E name \in DOMAIN d.Setup : ConfigureDict(name)
    \/ \E key \in cfg.keys : ConfigureItemDefault(key)
    \/ \E key \in cfg.keys : \E line \in Lines : ConfigureItemPrompt(key, line)
    \/ \E key \in cfg.keys : \E err \in InputErrors : ConfigureItemInputFails(key, err)
    \/ ConfigureReturn
    \/ CreateNoSpinner
    \/ CreateCall
    \/ CreateReturnNil
    \/ \E res \in {"nil"} \cup SpinnerErrors : DictStart(res)
    \/ \E res \in {"nil"} \cup APIErrors : DictCreate(res)
    \/ \E res \in {"nil"} \cup SpinnerErrors : DictStopFail(res)
    \/ \E res \in {"nil"} \cup SpinnerErrors : DictStop(res)
    \/ \E res \in {"nil"} \cup SpinnerErrors : ItemStart(res)
    \/ \E res \in {"nil"} \cup APIErrors : ItemCreate(res)
    \/ \E res \in {"nil"} \cup SpinnerErrors : ItemStopFail(res)
    \/ \E res \in {"nil"} \cup SpinnerErrors : ItemStop(res)

SpecDict == DictInit /\ [][DictNext]_vars

----------------------------------------------------------------------------
(* A caller that calls Configure or Create more than once *)

\* the calls of Configure or Create after the first of each
MaxReentries == 1

\* Configure is called on an instance it has already been called on: the
\* range over d.Setup begins again, d.required is what the earlier call left
ConfigureAgain ==
    /\ dpc = "idle"
    /\ configured
    /\ reentries < MaxReentries
    /\ reentries' = reentries + 1
    /\ cfg' = [NoConfigure EXCEPT !.todo = DOMAIN d.Setup]
    /\ configureRet' = Pending
    /\ dpc' = "cfgDict"
    /\ UNCHANGED <<d, required, cre, calls, configured, created>>
    /\ UNCHANGED <<createRet, pvars, cvars, ivars>>

\* Create is called on an instance it has already been called on: lines
\* 264-271, the range over d.required begins again at its first element
CreateAgain ==
    /\ dpc = "idle"
    /\ created
    /\ reentries < MaxReentries
    /\ reentries' = reentries + 1
    /\ IF d.Spinner
       THEN /\ cre' = [NoCreate EXCEPT !.i = 1]
            /\ createRet' = Pending
            /\ dpc' = "dictStart"
       ELSE CreateReturns(RemediationError("internal logic error", "BugRemediation"))
    /\ UNCHANGED <<d, required, cfg, calls, configured, created>>
    /\ UNCHANGED <<configureRet, pvars, cvars, ivars>>

\* the items over all the dictionaries of a Setup whose instance is called
\* again
MaxLifecycleItems == 1

LifecycleInit ==
    /\ DictInit
    /\ TotalItems(d.Setup, DOMAIN d.Setup) <= MaxLifecycleItems

LifecycleNext ==
    \/ DictNext
    \/ ConfigureAgain
    \/ CreateAgain

SpecLifecycle == LifecycleInit /\ [][LifecycleNext]_vars

----------------------------------------------------------------------------
(* Resource commands: values *)

JSONCommands ==
    {"logging datadog list", "logging cloudfiles list", "logging newrelic list",
     "logging sftp list", "logging s3 list", "vcl snippet list",
     "config-store-entry list", "tls-custom activation describe"}

\* the commands that resolve their service with cmd.ServiceDetails
ServiceScoped ==
    {"logging datadog list", "logging cloudfiles list", "logging newrelic list",
     "logging sftp list", "logging s3 list", "vcl snippet list",
     "healthcheck create", "healthcheck update", "logging azureblob update"}

\* the commands that print what the API returned
PrintingCommands == JSONCommands

Commands ==
    JSONCommands \cup ServiceScoped
        \cup {"service-auth update", "dictionary-entry update"}

\* the API client method the command calls
APIOp(kind) ==
    CASE kind = "logging datadog list" -> "ListDatadog"
      [] kind = "logging cloudfiles list" -> "ListCloudfiles"
      [] kind = "logging newrelic list" -> "ListNewRelic"
      [] kind = "logging sftp list" -> "ListSFTPs"
      [] kind = "logging s3 list" -> "ListS3s"
      [] kind = "vcl snippet list" -> "ListSnippets"
      [] kind = "config-store-entry list" -> "ListConfigStoreItems"
      [] kind = "tls-custom activation describe" -> "GetTLSActivation"
      [] kind = "healthcheck create" -> "CreateHealthCheck"
      [] kind = "healthcheck update" -> "UpdateHealthCheck"
      [] kind = "logging azureblob update" -> "UpdateBlobStorage"
      [] kind = "service-auth update" -> "UpdateServiceAuthorization"
      [] kind = "dictionary-entry update" -> "UpdateDictionaryItem"

APIOps == {APIOp(kind) : kind \in Commands} \cup {"BatchModifyDictionaryItems"}

ServiceContext == {"Service ID", "Service Version"}

\* the keys of the context recorded with a failure of the API call: the
\* empty set where the command calls ErrLog.Add
APIFailureContext(kind) ==
    CASE kind \in {"logging cloudfiles list", "logging newrelic list",
                   "vcl snippet list", "healthcheck create",
                   "healthcheck update", "logging azureblob update"}
             -> ServiceContext
      [] kind = "tls-custom activation describe" -> {"TLS Activation ID"}
      [] kind = "service-auth update" -> {"Service Authorization ID"}
      [] OTHER -> {}

\* what a create or update command writes after the API call succeeded
SuccessOutput(kind) ==
    IF kind = "dictionary-entry update" THEN <<"success", "item">>
    ELSE <<"success">>

ServiceErrors == {"svcErr"}
FileErrors == {"fileErr"}
WriteErrors == {"writeErr"}

\* the items of the file given with --file
MaxBatchItems == 1

\* the command lines: --json on the commands that have it, --file, --key
\* and --value on dictionary-entry update
CmdInputs ==
    {r \in [kind : Commands, verbose : BOOLEAN, json : BOOLEAN, file : BOOLEAN,
            key : {"", "k"}, value : {"", "v"}, items : 0..MaxBatchItems] :
        /\ r.json => r.kind \in JSONCommands
        /\ r.kind # "dictionary-entry update" =>
               ~r.file /\ r.key = "" /\ r.value = ""
        /\ ~r.file => r.items = 0}

----------------------------------------------------------------------------
(* Resource commands: Exec *)

\* Exec returns r
CmdReturns(r) ==
    /\ rret' = r
    /\ rpc' = "done"

\* an Exec that never looks at the verbose and JSON flags together
CmdExecNoComboCheck ==
    /\ rpc = "start"
    /\ rpc' = IF rcmd.kind \in ServiceScoped THEN "serviceDetails"
              ELSE IF rcmd.kind = "dictionary-entry update" THEN "serviceID"
              ELSE "api"
    /\ UNCHANGED <<rcmd, rret, rcalls, rout, rlog>>
    /\ UNCHANGED <<pvars, dvars, reentries, ivars>>

\* Exec is called: the test of Verbose() and json that opens the Exec of the
\* commands with --json, then the first call the command makes
CmdExec ==
    /\ rpc = "start"
    /\ IF rcmd.kind \in JSONCommands /\ rcmd.verbose /\ rcmd.json
       THEN CmdReturns(Plain("ErrInvalidVerboseJSONCombo"))
       ELSE /\ rpc' = IF rcmd.kind \in ServiceScoped THEN "serviceDetails"
                      ELSE IF rcmd.kind = "dictionary-entry update" THEN "serviceID"
                      ELSE "api"
            /\ rret' = rret
    /\ UNCHANGED <<rcmd, rcalls, rout, rlog>>
    /\ UNCHANGED <<pvars, dvars, reentries, ivars>>

\* a ServiceDetails whose failure is recorded but does not end Exec
CmdServiceDetailsFailureIgnored(res, shown) ==
    /\ rpc = "serviceDetails"
    /\ shown => rcmd.verbose
    /\ rcalls' = Append(rcalls, [op |-> "ServiceDetails", res |-> res])
    /\ rout' = IF shown THEN Append(rout, "service") ELSE rout
    /\ rlog' = IF res # "nil"
               THEN Append(rlog, [err |-> res, ctx |-> ServiceContext])
               ELSE rlog
    /\ rpc' = "api"
    /\ rret' = rret
    /\ UNCHANGED rcmd
    /\ UNCHANGED <<pvars, dvars, reentries, ivars>>

\* cmd.ServiceDetails returns res; it is given out and VerboseMode, and
\* shown tells whether it wrote the service it resolved
CmdServiceDetails(res, shown) ==
    /\ rpc = "serviceDetails"
    /\ shown => rcmd.verbose
    /\ rcalls' = Append(rcalls, [op |-> "ServiceDetails", res |-> res])
    /\ rout' = IF shown THEN Append(rout, "service") ELSE rout
    /\ IF res # "nil"
       THEN /\ rlog' = Append(rlog, [err |-> res, ctx |-> ServiceContext])
            /\ CmdReturns(Plain(res))
       ELSE /\ rlog' = rlog
            /\ rpc' = "api"
            /\ rret' = rret
    /\ UNCHANGED rcmd
    /\ UNCHANGED <<pvars, dvars, reentries, ivars>>

\* an Exec that looks at --key and --value before it looks at --file
CmdServiceIDKeyFirst(res) ==
    /\ rpc = "serviceID"
    /\ rcalls' = Append(rcalls, [op |-> "ServiceID", res |-> res])
    /\ IF res # "nil"
       THEN /\ CmdReturns(Plain(res))
            /\ rout' = rout
       ELSE /\ rout' = IF rcmd.verbose THEN Append(rout, "service") ELSE rout
            /\ IF rcmd.key # "" /\ rcmd.value # ""
               THEN /\ rpc' = "api"
                    /\ rret' = rret
               ELSE IF rcmd.file
               THEN /\ rpc' = "open"
                    /\ rret' = rret
               ELSE CmdReturns(Plain("an empty value is not allowed"))
    /\ UNCHANGED <<rcmd, rlog>>
    /\ UNCHANGED <<pvars, dvars, reentries, ivars>>

\* dictionary-entry update: cmd.ServiceID returns res, then DisplayServiceID
\* in verbose mode, the choice of the batch path and the test of key and value
CmdServiceID(res) ==
    /\ rpc = "serviceID"
    /\ rcalls' = Append(rcalls, [op |-> "ServiceID", res |-> res])
    /\ IF res # "nil"
       THEN /\ CmdReturns(Plain(res))
            /\ rout' = rout
       ELSE /\ rout' = IF rcmd.verbose THEN Append(rout, "service") ELSE rout
            /\ IF rcmd.file
               THEN /\ rpc' = "open"
                    /\ rret' = rret
               ELSE IF rcmd.key = "" \/ rcmd.value = ""
               THEN CmdReturns(Plain("an empty value is not allowed"))
               ELSE /\ rpc' = "api"
                    /\ rret' = rret
    /\ UNCHANGED <<rcmd, rlog>>
    /\ UNCHANGED <<pvars, dvars, reentries, ivars>>

\* an API failure that is returned wrapped in a message
CmdAPIWrapsError(res) ==
    /\ rpc = "api"
    /\ rcalls' = Append(rcalls, [op |-> APIOp(rcmd.kind), res |-> res])
    /\ IF res # "nil"
       THEN /\ rlog' = Append(rlog, [err |-> res, ctx |-> APIFailureContext(rcmd.kind)])
            /\ CmdReturns(Wrapped("error calling the API", res))
            /\ rout' = rout
       ELSE /\ rlog' = rlog
            /\ IF rcmd.kind \in PrintingCommands
               THEN /\ rpc' = "print"
                    /\ rret' = rret
                    /\ rout' = rout
               ELSE /\ rout' = rout \o SuccessOutput(rcmd.kind)
                    /\ CmdReturns(Nil)
    /\ UNCHANGED rcmd
    /\ UNCHANGED <<pvars, dvars, reentries, ivars>>

\* the API call of the command returns res: on failure the error is added
\* to ErrLog and returned; on success a create or update command writes its
\* success message and a list or describe command goes on to print
CmdAPI(res) ==
    /\ rpc = "api"
    /\ rcalls' = Append(rcalls, [op |-> APIOp(rcmd.kind), res |-> res])
    /\ IF res # "nil"
       THEN /\ rlog' = Append(rlog, [err |-> res, ctx |-> APIFailureContext(rcmd.kind)])
            /\ CmdReturns(Plain(res))
            /\ rout' = rout
       ELSE /\ rlog' = rlog
            /\ IF rcmd.kind \in PrintingCommands
               THEN /\ rpc' = "print"
                    /\ rret' = rret
                    /\ rout' = rout
               ELSE /\ rout' = rout \o SuccessOutput(rcmd.kind)
                    /\ CmdReturns(Nil)
    /\ UNCHANGED rcmd
    /\ UNCHANGED <<pvars, dvars, reentries, ivars>>

\* the verbose dump of a logging or snippet list command; the results of
\* its writes are not looked at
CmdPrintVerbose ==
    /\ rpc = "print"
    /\ rcmd.verbose
    /\ rcmd.kind \in ServiceScoped
    /\ rout' = Append(rout, "verbose")
    /\ CmdReturns(Nil)
    /\ UNCHANGED <<rcmd, rcalls, rlog>>
    /\ UNCHANGED <<pvars, dvars, reentries, ivars>>

\* the JSON output: out.Write returns res. config-store-entry list returns
\* what WriteJSON returned; the other commands add the error to ErrLog and
\* wrap it
CmdPrintJSON(res) ==
    /\ rpc = "print"
    /\ rcmd.json
    /\ IF res = "nil"
       THEN /\ rout' = Append(rout, "json")
            /\ rlog' = rlog
            /\ CmdReturns(Nil)
       ELSE /\ rout' = rout
            /\ IF rcmd.kind = "config-store-entry list"
               THEN /\ rlog' = rlog
                    /\ CmdReturns(Plain(res))
               ELSE /\ rlog' = Append(rlog, [err |-> res, ctx |-> {}])
                    /\ CmdReturns(Wrapped("error: unable to write data to stdout", res))
    /\ UNCHANGED <<rcmd, rcalls>>
    /\ UNCHANGED <<pvars, dvars, reentries, ivars>>

\* the table of a list command, or the lines of activation describe
CmdPrintSummary ==
    /\ rpc = "print"
    /\ ~rcmd.json
    /\ ~(rcmd.verbose /\ rcmd.kind \in ServiceScoped)
    /\ rout' = Append(rout, IF rcmd.kind = "tls-custom activation describe"
                            THEN "text" ELSE "table")
    /\ CmdReturns(Nil)
    /\ UNCHANGED <<rcmd, rcalls, rlog>>
    /\ UNCHANGED <<pvars, dvars, reentries, ivars>>

\* a step of batchModify fails with err: batchModify adds it to ErrLog and
\* returns it, Exec adds what batchModify returned and returns it
BatchFails(err) ==
    /\ rlog' = rlog \o <<[err |-> err, ctx |-> {}], [err |-> err, ctx |-> {}]>>
    /\ CmdReturns(Plain(err))

\* batchModify: os.Open returns res
CmdBatchOpen(res) ==
    /\ rpc = "open"
    /\ IF res # "nil"
       THEN BatchFails(res)
       ELSE /\ rpc' = "read"
            /\ UNCHANGED <<rret, rlog>>
    /\ UNCHANGED <<rcmd, rcalls, rout>>
    /\ UNCHANGED <<pvars, dvars, reentries, ivars>>

\* batchModify: io.ReadAll returns res
CmdBatchRead(res) ==
    /\ rpc = "read"
    /\ IF res # "nil"
       THEN BatchFails(res)
       ELSE /\ rpc' = "decode"
            /\ UNCHANGED <<rret, rlog>>
    /\ UNCHANGED <<rcmd, rcalls, rout>>
    /\ UNCHANGED <<pvars, dvars, reentries, ivars>>

\* batchModify: json.Unmarshal returns res, then the test of the number of
\* items; the error for an empty file is added to ErrLog by Exec only
CmdBatchDecode(res) ==
    /\ rpc = "decode"
    /\ IF res # "nil"
       THEN BatchFails(res)
       ELSE IF rcmd.items = 0
       THEN /\ rlog' = Append(rlog, [err |-> "item key not found in file", ctx |-> {}])
            /\ CmdReturns(Plain("item key not found in file"))
       ELSE /\ rpc' = "batch"
            /\ UNCHANGED <<rret, rlog>>
    /\ UNCHANGED <<rcmd, rcalls, rout>>
    /\ UNCHANGED <<pvars, dvars, reentries, ivars>>

\* batchModify: BatchModifyDictionaryItems returns res
CmdBatchAPI(res) ==
    /\ rpc = "batch"
    /\ rcalls' = Append(rcalls, [op |-> "BatchModifyDictionaryItems", res |-> res])
    /\ IF res # "nil"
       THEN /\ BatchFails(res)
            /\ rout' = rout
       ELSE /\ rout' = Append(rout, "success")
            /\ rlog' = rlog
            /\ CmdReturns(Nil)
    /\ UNCHANGED rcmd
    /\ UNCHANGED <<pvars, dvars, reentries, ivars>>

CmdInit ==
    /\ rcmd \in CmdInputs
    /\ rpc = "start"
    /\ rret = Pending
    /\ rcalls = <<>>
    /\ rout = <<>>
    /\ rlog = <<>>
    /\ reentries = 0
    /\ PublishIdle
    /\ DictIdle
    /\ InputIdle

CmdNext ==
    \/ CmdExec
    \/ \E res \in {"nil"} \cup ServiceErrors : \E shown \in BOOLEAN :
           CmdServiceDetails(res, shown)
    \/ \E res \in {"nil"} \cup ServiceErrors : CmdServiceID(res)
    \/ \E res \in {"nil"} \cup APIErrors : CmdAPI(res)
    \/ CmdPrintVerbose
    \/ \E res \in {"nil"} \cup WriteErrors : CmdPrintJSON(res)
    \/ CmdPrintSummary
    \/ \E res \in {"nil"} \cup FileErrors : CmdBatchOpen(res)
    \/ \E res \in {"nil"} \cup FileErrors : CmdBatchRead(res)
    \/ \E res \in {"nil"} \cup FileErrors : CmdBatchDecode(res)
    \/ \E res \in {"nil"} \cup APIErrors : CmdBatchAPI(res)

SpecCmd == CmdInit /\ [][CmdNext]_vars

----------------------------------------------------------------------------
(* The API input of healthcheck create, healthcheck update and azure-blob
   update *)

InputCommands ==
    {"healthcheck create", "healthcheck update", "logging azureblob update"}

\* the statements `if c.X.WasSet { input.Y = &c.X.Value }` of the command,
\* each as <<X, Y>>
Assignments(kind) ==
    CASE kind = "healthcheck create" ->
             {<<"name", "Name">>, <<"comment", "Comment">>,
              <<"method", "Method">>, <<"host", "Host">>, <<"path", "Path">>,
              <<"httpVersion", "HTTPVersion">>, <<"timeout", "Timeout">>,
              <<"checkInterval", "CheckInterval">>,
              <<"expectedResponse", "ExpectedResponse">>,
              <<"window", "Window">>, <<"threshold", "Threshold">>,
              <<"initial", "Initial">>}
      [] kind = "healthcheck update" ->
             {<<"NewName", "NewName">>, <<"Comment", "Comment">>,
              <<"Method", "Method">>, <<"Host", "Host">>, <<"Path", "Path">>,
              <<"HTTPVersion", "HTTPVersion">>, <<"Timeout", "Timeout">>,
              <<"CheckInterval", "CheckInterval">>,
              <<"ExpectedResponse", "ExpectedResponse">>,
              <<"Window", "Window">>, <<"Threshold", "Threshold">>,
              <<"Initial", "Initial">>}
      [] kind = "logging azureblob update" ->
             {<<"NewName", "NewName">>, <<"Path", "Path">>,
              <<"AccountName", "AccountName">>, <<"Container", "Container">>,
              <<"SASToken", "SASToken">>, <<"Period", "Period">>,
              <<"GzipLevel", "GzipLevel">>, <<"Format", "Format">>,
              <<"FormatVersion", "FormatVersion">>,
              <<"ResponseCondition", "ResponseCondition">>,
              <<"MessageType", "MessageType">>,
              <<"TimestampFormat", "TimestampFormat">>,
              <<"Placement", "Placement">>, <<"PublicKey", "PublicKey">>,
              <<"FileMaxBytes", "FileMaxBytes">>,
              <<"CompressionCodec", "CompressionCodec">>}

OptionalFields(kind) == {a[1] : a \in Assignments(kind)}
InputFields(kind) == {a[2] : a \in Assignments(kind)}

\* the fields declared cmd.OptionalInt; the others are cmd.OptionalString
IntFields ==
    {"timeout", "checkInterval", "expectedResponse", "window", "threshold",
     "initial", "Timeout", "CheckInterval", "ExpectedResponse", "Window",
     "Threshold", "Initial", "Period", "GzipLevel", "FormatVersion",
     "FileMaxBytes"}

ZeroValue(f) == IF f \in IntFields THEN 0 ELSE ""
OptionalValues(f) == IF f \in IntFields THEN {0, 5} ELSE {"", "v"}

\* a nil pointer, and a pointer to v
Absent == [present |-> FALSE]
PointerTo(v) == [present |-> TRUE, value |-> v]

InputInit ==
    /\ ikind \in InputCommands
    /\ iflags = [f \in OptionalFields(ikind) |->
                    [WasSet |-> FALSE, Value |-> ZeroValue(f)]]
    /\ input = [g \in InputFields(ikind) |-> Absent]
    /\ ipc = "parse"
    /\ reentries = 0
    /\ PublishIdle
    /\ DictIdle
    /\ CmdIdle

\* the flag of optional field f is on the command line with value v: the
\* flag's Action sets WasSet, its Var sets Value
SetOptional(f, v) ==
    /\ ipc = "parse"
    /\ ~iflags[f].WasSet
    /\ Cardinality({g \in DOMAIN iflags : iflags[g].WasSet}) < MaxFlags
    /\ iflags' = [iflags EXCEPT ![f] = [WasSet |-> TRUE, Value |-> v]]
    /\ UNCHANGED <<ikind, input, ipc>>
    /\ UNCHANGED <<pvars, dvars, reentries, cvars>>

\* an input that gets the fields whose value is not the zero value
ConstructInputIfNonZero ==
    /\ ipc = "parse"
    /\ input' = [g \in InputFields(ikind) |->
                    LET f == CHOOSE x \in OptionalFields(ikind) :
                                 <<x, g>> \in Assignments(ikind)
                    IN IF iflags[f].Value # ZeroValue(f)
                       THEN PointerTo(iflags[f].Value)
                       ELSE input[g]]
    /\ ipc' = "built"
    /\ UNCHANGED <<ikind, iflags>>
    /\ UNCHANGED <<pvars, dvars, reentries, cvars>>

\* the input is built: every statement of Assignments is executed
ConstructInput ==
    /\ ipc = "parse"
    /\ input' = [g \in InputFields(ikind) |->
                    LET f == CHOOSE x \in OptionalFields(ikind) :
                                 <<x, g>> \in Assignments(ikind)
                    IN IF iflags[f].WasSet
                       THEN PointerTo(iflags[f].Value)
                       ELSE input[g]]
    /\ ipc' = "built"
    /\ UNCHANGED <<ikind, iflags>>
    /\ UNCHANGED <<pvars, dvars, reentries, cvars>>

InputNext ==
    \/ \E f \in DOMAIN iflags : \E v \in OptionalValues(f) : SetOptional(f, v)
    \/ ConstructInput

SpecInput == InputInit /\ [][InputNext]_vars

----------------------------------------------------------------------------
(* Publish: properties *)

\* C1: if build.Exec returned an error, deploy.Exec is never invoked in that
\* invocation: the deploy call count stays 0.
C1_NoDeployAfterBuildFailure ==
    buildErr \in Errors => deployCalls = 0 /\ deployErr = "pending"

C1_Witness == ppc = "done" /\ buildErr \in Errors /\ deployCalls = 0

\* C2: build is executed exactly once and first; deploy starts only after
\* build returned success; whenever build succeeded deploy is executed
\* exactly once.
C2_BuildOnceThenDeployOnce ==
    /\ ppc = "parse" => buildCalls = 0 /\ deployCalls = 0
    /\ ppc # "parse" => buildCalls = 1
    /\ ppc = "build" => buildErr = "pending" /\ deployCalls = 0
    /\ deployCalls > 0 => buildCalls = 1 /\ buildErr = "nil"
    /\ buildErr = "nil" => deployCalls = 1
    /\ deployCalls <= 1

C2_Witness == ppc = "done" /\ buildErr = "nil" /\ deployCalls = 1 /\ buildCalls = 1

\* C3: Exec returns exactly the error of the phase that failed, and nil if
\* and only if both phases succeeded.
C3_ReturnsPhaseError ==
    ppc = "done" =>
        /\ buildErr \in Errors => ret = buildErr
        /\ (buildErr = "nil" /\ deployErr \in Errors) => ret = deployErr
        /\ ret = "nil" <=> (buildErr = "nil" /\ deployErr = "nil")

C3_Witness == ppc = "done" /\ buildErr = "nil" /\ deployErr = "e2" /\ ret = "e2"

\* C4: for every optional field F of publish, when the targeted sub-command's
\* Exec is invoked its field equals F.Value if F.WasSet (zero values
\* included), and still has its value from before Exec if not F.WasSet.
C4_WasSetPropagation ==
    /\ ppc = "build" =>
        /\ build.IncludeSrc = IF c.includeSrc.WasSet THEN c.includeSrc.Value
                              ELSE build0.IncludeSrc
        /\ build.Lang = IF c.lang.WasSet THEN c.lang.Value ELSE build0.Lang
        /\ build.PackageName = IF c.packageName.WasSet THEN c.packageName.Value
                               ELSE build0.PackageName
        /\ build.Timeout = IF c.timeout.WasSet THEN c.timeout.Value
                           ELSE build0.Timeout
    /\ ppc = "deploy" =>
        /\ deploy.Package = IF c.pkg.WasSet THEN c.pkg.Value ELSE deploy0.Package
        /\ deploy.ServiceName = IF c.serviceName.WasSet
                                THEN IsSet(c.serviceName.Value)
                                ELSE deploy0.ServiceName
        /\ deploy.ServiceVersion = IF c.serviceVersion.WasSet
                                   THEN IsSet(c.serviceVersion.Value)
                                   ELSE deploy0.ServiceVersion
        /\ deploy.Domain = IF c.domain.WasSet THEN c.domain.Value
                           ELSE deploy0.Domain
        /\ deploy.Comment = IF c.comment.WasSet THEN IsSet(c.comment.Value)
                            ELSE deploy0.Comment

\* an explicitly empty --domain replaces deploy's own domain
C4_Witness ==
    /\ ppc = "deploy"
    /\ c.domain = IsSet("")
    /\ deploy0.Domain = "own"
    /\ deploy.Domain = ""
    /\ ~c.pkg.WasSet
    /\ deploy.Package = "own"

\* the field of the build or deploy command that flag f is copied to
FieldOf(f, b, dp) ==
    CASE f = "include-source"       -> b.IncludeSrc
      [] f = "language"             -> b.Lang
      [] f = "package-name"         -> b.PackageName
      [] f = "timeout"              -> b.Timeout
      [] f = "package"              -> dp.Package
      [] f = "service-name"         -> dp.ServiceName
      [] f = "version"              -> dp.ServiceVersion
      [] f = "domain"               -> dp.Domain
      [] f = "comment"              -> dp.Comment
      [] f = "status-check-code"    -> dp.StatusCheckCode
      [] f = "status-check-off"     -> dp.StatusCheckOff
      [] f = "status-check-path"    -> dp.StatusCheckPath
      [] f = "status-check-timeout" -> dp.StatusCheckTimeout

BuildFlags == {"include-source", "language", "package-name", "timeout"}
DeployFlags == (OptionalFlags \ BuildFlags) \cup StatusFlags

\* flag f's field is, when its sub-command is invoked, as it was before Exec
Untouched(f) ==
    /\ (f \in BuildFlags /\ ppc = "build") =>
           FieldOf(f, build, deploy) = FieldOf(f, build0, deploy0)
    /\ (f \in DeployFlags /\ ppc = "deploy") =>
           FieldOf(f, build, deploy) = FieldOf(f, build0, deploy0)

\* C5 as stated: for every publish flag the user did not supply (build flags,
\* deploy flags and the four status-check flags), the field of the build or
\* deploy command holds, when that sub-command's Exec is invoked, the value
\* it had before PublishCommand.Exec started.
C5_Original ==
    \A f \in (BuildFlags \cup DeployFlags) \ supplied : Untouched(f)

\* C5 amended: a flag that was not supplied leaves its field untouched,
\* except status-check-path and status-check-timeout, whose defaults "/" and
\* 120 are copied to deploy (the manifest is always copied as well).
C5_UnsuppliedFlags ==
    /\ \A f \in (BuildFlags \cup DeployFlags)
                    \ (supplied \cup {"status-check-path", "status-check-timeout"}) :
           Untouched(f)
    /\ (ppc = "deploy" /\ "status-check-path" \notin supplied) =>
           deploy.StatusCheckPath = "/"
    /\ (ppc = "deploy" /\ "status-check-timeout" \notin supplied) =>
           deploy.StatusCheckTimeout = 120
    /\ ppc = "build" => build.Manifest = c.manifest
    /\ ppc = "deploy" => deploy.Manifest = c.manifest

\* nothing was supplied, yet deploy's path and timeout are replaced while its
\* status-check code is kept
C5_Witness ==
    /\ ppc = "deploy"
    /\ supplied = {}
    /\ deploy0.StatusCheckPath = "/own"
    /\ deploy.StatusCheckPath = "/"
    /\ deploy.StatusCheckTimeout = 120
    /\ deploy.StatusCheckCode = 404

\* C6: the status-check parameters are gated by value: a code <= 0 leaves
\* deploy's code unchanged and a code > 0 overwrites it; likewise the
\* timeout; status-check-off is copied only when true, so a true
\* StatusCheckOff on deploy is never reset to false.
C6_StatusCheckGating ==
    ppc = "deploy" =>
        /\ deploy.StatusCheckCode = IF c.statusCheckCode <= 0
                                    THEN deploy0.StatusCheckCode
                                    ELSE c.statusCheckCode
        /\ deploy.StatusCheckTimeout = IF c.statusCheckTimeout <= 0
                                       THEN deploy0.StatusCheckTimeout
                                       ELSE c.statusCheckTimeout
        /\ c.statusCheckOff => deploy.StatusCheckOff
        /\ ~c.statusCheckOff => deploy.StatusCheckOff = deploy0.StatusCheckOff
        /\ deploy0.StatusCheckOff => deploy.StatusCheckOff

\* --status-check-code=0 and --no-status-check-off were given explicitly and
\* deploy keeps its own code and its own true StatusCheckOff
C6_Witness ==
    /\ ppc = "deploy"
    /\ supplied = {"status-check-code", "status-check-off"}
    /\ c.statusCheckCode = 0
    /\ ~c.statusCheckOff
    /\ deploy.StatusCheckCode = 404
    /\ deploy.StatusCheckOff

\* C7: a failing phase's error is added to Globals.ErrLog before Exec
\* returns, without changing the error returned or whether the remaining
\* phase is skipped; on a fully successful run publish adds nothing.
C7_ErrorLogged ==
    /\ ppc # "done" => errLog = <<>>
    /\ (ppc = "done" /\ buildErr \in Errors) =>
           errLog = <<buildErr>> /\ ret = buildErr /\ deployCalls = 0
    /\ (ppc = "done" /\ deployErr \in Errors) =>
           errLog = <<deployErr>> /\ ret = deployErr
    /\ (ppc = "done" /\ ret = "nil") => errLog = <<>>

C7_Witness == ppc = "done" /\ deployErr = "e1" /\ errLog = <<"e1">> /\ ret = "e1"

----------------------------------------------------------------------------
(* Dictionaries: properties *)

\* the positions in calls of the calls of operation op
CallsOf(op) == {k \in 1..Len(calls) : calls[k].op = op}
CreateOps == {"CreateDictionary", "CreateDictionaryItem"}
DeleteOps == {"DeleteDictionary", "DeleteDictionaryItem"}
SpinnerOps == {"Start", "Stop", "StopFail"}

\* Create has returned an error
CreateFailed == createRet.kind \in {"error", "wrapped", "remediation"}

\* no API call and no further progress indication follows call k, apart from
\* the StopFail that reports it
NothingAfter(k) ==
    /\ \A m \in (k+1)..Len(calls) :
           calls[m].op \notin (CreateOps \cup DeleteOps \cup {"Start", "Stop"})
    /\ Cardinality({m \in (k+1)..Len(calls) : calls[m].op = "StopFail"}) <= 1

\* C8: when the create-dictionary call of a resolved dictionary fails, Create
\* returns an error at once: no create-item call for that dictionary and no
\* create call for any later dictionary is issued.
C8_DictionaryFailureStops ==
    \A k \in CallsOf("CreateDictionary") :
        calls[k].res # "nil" =>
            /\ NothingAfter(k)
            /\ dpc \in {"dictStopFail", "idle", "cfgDict", "cfgItem"}
            /\ dpc # "dictStopFail" => CreateFailed

\* the first of two dictionaries, which has items, could not be created
C8_Witness ==
    /\ dpc = "idle"
    /\ CreateFailed
    /\ Len(required) = 2
    /\ Len(required[1].Items) > 0
    /\ \E k \in CallsOf("CreateDictionary") :
           calls[k].res # "nil" /\ calls[k].Name = required[1].Name
    /\ CallsOf("CreateDictionaryItem") = {}

\* C9: when a create-item call fails, Create returns an error at once: no
\* later item and no later dictionary is created, and no delete call is ever
\* issued, so what was created before the failure stays in place.
C9_ItemFailureStops ==
    /\ \A k \in CallsOf("CreateDictionaryItem") :
           calls[k].res # "nil" =>
               /\ NothingAfter(k)
               /\ dpc \in {"itemStopFail", "idle", "cfgDict", "cfgItem"}
               /\ dpc # "itemStopFail" => CreateFailed
    /\ \A k \in 1..Len(calls) : calls[k].op \notin DeleteOps

\* the first item of the first of two dictionaries was created, the second
\* one failed
C9_Witness ==
    /\ dpc = "idle"
    /\ CreateFailed
    /\ Len(required) = 2
    /\ Len(required[1].Items) = 2
    /\ Cardinality(CallsOf("CreateDictionary")) = 1
    /\ \E k, m \in CallsOf("CreateDictionaryItem") :
           /\ k < m
           /\ calls[k].res = "nil"
           /\ calls[m].res # "nil"
           /\ calls[m].ItemKey = required[1].Items[2].Key

\* two dictionaries are resolved, the first with one item; the first was
\* created completely and the creation of the second's second item failed
C10_Scenario ==
    /\ dpc = "idle"
    /\ CreateFailed
    /\ Len(required) = 2
    /\ Len(required[1].Items) = 1
    /\ Len(required[2].Items) >= 2
    /\ \E k \in CallsOf("CreateDictionaryItem") :
           /\ calls[k].res # "nil"
           /\ calls[k].ItemKey = required[2].Items[2].Key
           /\ \E n \in CallsOf("CreateDictionary") :
                  /\ n < k
                  /\ calls[n].Name = required[2].Name
                  /\ calls[n].id = calls[k].DictionaryID
           /\ \A m \in 1..(k-1) : calls[m].res = "nil"

\* C10 as stated: in that scenario Create issues exactly one
\* dictionary-create call and exactly three item-create calls.
C10_Original ==
    C10_Scenario =>
        /\ Cardinality(CallsOf("CreateDictionary")) = 1
        /\ Cardinality(CallsOf("CreateDictionaryItem")) = 3

\* C10 amended: in that scenario Create issues exactly two dictionary-create
\* calls (one per dictionary) and exactly three item-create calls, the third
\* being the one that failed.
C10_TwoDictionaryThreeItemCalls ==
    C10_Scenario =>
        /\ Cardinality(CallsOf("CreateDictionary")) = 2
        /\ Cardinality(CallsOf("CreateDictionaryItem")) = 3
        /\ \A k \in CallsOf("CreateDictionaryItem") :
               calls[k].res # "nil" <=>
                   \A m \in CallsOf("CreateDictionaryItem") : m <= k

C10_Witness ==
    /\ C10_Scenario
    /\ Cardinality(CallsOf("CreateDictionary")) = 2
    /\ Cardinality(CallsOf("CreateDictionaryItem")) = 3

\* C11: when a create-dictionary or create-item call fails and StopFail
\* succeeds, Create returns a wrapped error whose wrapped cause is the error
\* the API client returned for that call.
C11_WrappedCauseIsAPIError ==
    \A k \in CallsOf("CreateDictionary") \cup CallsOf("CreateDictionaryItem") :
        (/\ calls[k].res # "nil"
         /\ k + 1 <= Len(calls)
         /\ calls[k+1].op = "StopFail"
         /\ calls[k+1].res = "nil") =>
            /\ createRet.kind = "wrapped"
            /\ createRet.cause = calls[k].res

\* positions of Configure and of Create
ConfigurePositions == {"cfgDict", "cfgItem"}
CreatePositions == {"dictStart", "dictAPI", "dictStopFail", "dictStop",
                    "itemStart", "itemAPI", "itemStopFail", "itemStop"}

\* the positions in calls of the calls made on the API client
APICalls == {k \in 1..Len(calls) : calls[k].op \in CreateOps \cup DeleteOps}

\* C12: Configure never invokes any method of the API client, in any mode
\* and for any provisioning spec: no step of Configure adds an API call.
C12_ConfigureMakesNoAPICall ==
    [][(dpc \in ConfigurePositions \/ dpc' \in ConfigurePositions)
          => APICalls' = APICalls]_vars

\* an interactive Configure resolved two dictionaries, prompting on the way
C12_Witness ==
    /\ dpc = "idle"
    /\ configureRet = Nil
    /\ ~created
    /\ Interactive(d)
    /\ Len(required) = 2
    /\ CallsOf("Input") # {}
    /\ APICalls = {}

\* every name and every (key, value) sent to the API is stored in d.required
SendsStoredValues ==
    /\ \A k \in CallsOf("CreateDictionary") :
           \E i \in 1..Len(required) : required[i].Name = calls[k].Name
    /\ \A k \in CallsOf("CreateDictionaryItem") :
           \E i \in 1..Len(required) : \E j \in 1..Len(required[i].Items) :
               required[i].Items[j] =
                   [Key |-> calls[k].ItemKey, Value |-> calls[k].ItemValue]

\* C13: Create never prompts and never reads Stdin, whatever AcceptDefaults
\* and NonInteractive are, and the values it sends are those stored by
\* Configure.
C13_CreateNeverPrompts ==
    /\ []SendsStoredValues
    /\ [][(dpc \in CreatePositions \/ dpc' \in CreatePositions)
             => /\ CallsOf("Input")' = CallsOf("Input")
                /\ required' = required]_vars

\* in interactive mode Create sent a typed value and completed; the only
\* reads of Stdin are the prompts of Configure, made before
C13_Witness ==
    /\ dpc = "idle"
    /\ Interactive(d)
    /\ createRet = Nil
    /\ \E k \in CallsOf("CreateDictionaryItem") : calls[k].ItemValue = "typed"
    /\ \A k \in CallsOf("Input") : \A m \in APICalls : k < m
    /\ CallsOf("Input") # {}

\* the value the rule of the claim gives an item declared with default dflt
\* when typed is the line the user typed ("" when no prompt was shown)
ExpectedValue(dflt, typed) ==
    IF typed # "" THEN typed
    ELSE IF dflt # "" THEN dflt ELSE "example"

\* C14: every item is resolved to the typed line if the mode is interactive
\* and the line is non-empty, otherwise to the declared default if there is
\* one, otherwise to "example"; in accept-defaults or non-interactive mode an
\* item without a declared default resolves to "example".
C14_ValueResolution ==
    \A i \in 1..Len(required) : \A j \in 1..Len(required[i].Items) :
        LET name == required[i].Name
            it == required[i].Items[j]
            dflt == d.Setup[name][it.Key]
        IN IF Interactive(d)
           THEN \E k \in 1..Len(calls) :
                    /\ calls[k].op = "Input"
                    /\ calls[k].key = it.Key
                    /\ calls[k].name = name
                    /\ calls[k].res = "nil"
                    /\ it.Value = ExpectedValue(dflt, calls[k].line)
           ELSE /\ it.Value = ExpectedValue(dflt, "")
                /\ dflt = "" => it.Value = "example"

\* without prompting, an item without default became "example" next to an
\* item that kept its declared default
C14_Witness ==
    /\ configureRet = Nil
    /\ ~Interactive(d)
    /\ \E i \in 1..Len(required) : \E j, k \in 1..Len(required[i].Items) :
           /\ d.Setup[required[i].Name][required[i].Items[j].Key] = ""
           /\ required[i].Items[j].Value = "example"
           /\ required[i].Items[k].Value = "dflt"

\* C15: Predefined is true exactly if Setup declares a dictionary; with no
\* declared dictionary Configure and Create make no call on the API client,
\* the progress indicator or the input stream.
C15_EmptySetupNoCalls ==
    /\ Predefined(d) <=> DOMAIN d.Setup # {}
    /\ DOMAIN d.Setup = {} => calls = <<>> /\ required = <<>>

\* both phases ran to completion on an empty Setup
C15_Witness ==
    /\ DOMAIN d.Setup = {}
    /\ ~Predefined(d)
    /\ d.Spinner
    /\ dpc = "idle"
    /\ configureRet = Nil
    /\ createRet = Nil
    /\ calls = <<>>

\* C16: without a Spinner, Create fails with an internal-error
\* (bug-remediation) error before any API call, whatever d.required holds,
\* the empty list included.
C16_NoSpinnerIsInternalError ==
    (created /\ ~d.Spinner) =>
        /\ createRet = RemediationError("internal logic error", "BugRemediation")
        /\ dpc \notin CreatePositions
        /\ APICalls = {}
        /\ \A k \in 1..Len(calls) : calls[k].op \notin SpinnerOps

\* Create was called without a Spinner on a list of two dictionaries
C16_Witness ==
    /\ created
    /\ ~d.Spinner
    /\ Len(required) = 2
    /\ configured
    /\ createRet.kind = "remediation"

\* every declared item of every declared dictionary has a non-empty value
AllResolved ==
    \A name \in DOMAIN d.Setup :
        \E i \in 1..Len(required) :
            /\ required[i].Name = name
            /\ \A key \in DOMAIN d.Setup[name] :
                   \E j \in 1..Len(required[i].Items) :
                       /\ required[i].Items[j].Key = key
                       /\ required[i].Items[j].Value # ""

\* C18: Configure returns an error only when reading interactive input
\* fails; in accept-defaults or non-interactive mode it never reads input
\* and always succeeds; on every path that does not fail each declared item
\* gets a non-empty value.
C18_ConfigureFailsOnlyOnInput ==
    /\ configureRet.kind \in {"nil", "pending", "wrapped"}
    /\ configureRet.kind = "wrapped" =>
           /\ Interactive(d)
           /\ configureRet.msg = "error reading prompt input"
           /\ \E k \in 1..Len(calls) :
                  /\ calls[k].op = "Input"
                  /\ calls[k].res \in InputErrors
                  /\ calls[k].res = configureRet.cause
    /\ \A k \in 1..Len(calls) :
           (calls[k].op = "Input" /\ calls[k].res # "nil") =>
               configureRet.kind = "wrapped"
    /\ ~Interactive(d) =>
           /\ \A k \in 1..Len(calls) : calls[k].op # "Input"
           /\ (configured /\ dpc \notin ConfigurePositions) => configureRet = Nil
    /\ configureRet = Nil => AllResolved

\* the second dictionary's prompt failed after the first was resolved
C18_Witness ==
    /\ Interactive(d)
    /\ configureRet.kind = "wrapped"
    /\ Len(required) = 1
    /\ Cardinality(DOMAIN d.Setup) = 2
    /\ dpc = "idle"

----------------------------------------------------------------------------
(* Lifecycle: properties *)

\* C19: under any sequence of Configure and Create calls on one instance,
\* the resolved list holds at most one record per declared dictionary and
\* each declared dictionary gives rise to at most one create-dictionary call.
C19_PopulatedOnceConsumedOnce ==
    \A name \in DOMAIN d.Setup :
        /\ Cardinality({i \in 1..Len(required) : required[i].Name = name}) <= 1
        /\ Cardinality({k \in CallsOf("CreateDictionary") :
                            calls[k].Name = name}) <= 1

----------------------------------------------------------------------------
(* Resource commands: properties *)

\* the positions in rcalls of the calls of the command's API method
CmdAPICalls == {k \in 1..Len(rcalls) : rcalls[k].op \in APIOps}

\* what a command writes about the outcome of its API call
ResultOutputs == {"success", "item", "json", "table", "text", "verbose"}

\* C17: in every command with JSON output, verbose and JSON together make
\* Exec return the invalid verbose/JSON combination error before the service
\* is resolved and before any API client call, with nothing written to out.
C17_VerboseJSONRejectedFirst ==
    (rcmd.verbose /\ rcmd.json /\ rpc # "start") =>
        /\ rcmd.kind \in JSONCommands
        /\ rpc = "done"
        /\ rret = Plain("ErrInvalidVerboseJSONCombo")
        /\ rcalls = <<>>
        /\ rout = <<>>

\* a service-scoped list command was given both flags
C17_Witness ==
    /\ rcmd.kind = "logging sftp list"
    /\ rcmd.verbose
    /\ rcmd.json
    /\ rpc = "done"
    /\ rret.kind = "error"
    /\ rcalls = <<>>

\* C20: in every resource command, when the API call fails it has been
\* attempted exactly once, Exec returns the very error the API client
\* returned, unwrapped, and no success or result message was written.
C20_APIErrorReturnedVerbatim ==
    /\ Cardinality(CmdAPICalls) <= 1
    /\ \A k \in CmdAPICalls :
           rcalls[k].res # "nil" =>
               /\ rpc = "done"
               /\ rret = Plain(rcalls[k].res)
               /\ \A i \in 1..Len(rout) : rout[i] \notin ResultOutputs

\* healthcheck update in verbose mode: the service was shown, the update
\* failed
C20_Witness ==
    /\ rcmd.kind = "healthcheck update"
    /\ rpc = "done"
    /\ rout = <<"service">>
    /\ \E k \in CmdAPICalls : rcalls[k].res \in APIErrors
    /\ rret = Plain("apiErr")

\* C21: in every resource command, a failure of the API call is recorded in
\* the diagnostic log together with a context that identifies the target
\* (for a service-scoped command the service ID and the service version)
\* before it is returned.
C21_APIErrorLoggedWithContext ==
    \A k \in CmdAPICalls :
        rcalls[k].res # "nil" =>
            \E i \in 1..Len(rlog) :
                /\ rlog[i].err = rcalls[k].res
                /\ rlog[i].ctx # {}
                /\ rcmd.kind \in ServiceScoped => ServiceContext \subseteq rlog[i].ctx

\* C22: in every service-scoped command, if resolving the service fails the
\* command returns that error after recording it with the service context in
\* the diagnostic log, and never issues its resource API call.
C22_ResolutionFailureStops ==
    \A k \in 1..Len(rcalls) :
        (rcalls[k].op = "ServiceDetails" /\ rcalls[k].res # "nil") =>
            /\ rcmd.kind \in ServiceScoped
            /\ rpc = "done"
            /\ rret = Plain(rcalls[k].res)
            /\ rlog = <<[err |-> rcalls[k].res, ctx |-> ServiceContext]>>
            /\ CmdAPICalls = {}

\* azure-blob update could not resolve its service
C22_Witness ==
    /\ rcmd.kind = "logging azureblob update"
    /\ rpc = "done"
    /\ rret = Plain("svcErr")
    /\ rcalls = <<[op |-> "ServiceDetails", res |-> "svcErr"]>>
    /\ Len(rlog) = 1

----------------------------------------------------------------------------
(* Dictionaries: properties of the order of the calls *)

\* the call a step adds to calls
Added == calls'[Len(calls')]

\* a step adds a call
AddsCall == Len(calls') = Len(calls) + 1

\* the last call made is a call of the Spinner that failed
SpinnerFailedLast ==
    /\ calls # <<>>
    /\ calls[Len(calls)].op \in SpinnerOps
    /\ calls[Len(calls)].res # "nil"

\* C23: a failure of the progress indicator supersedes the outcome of the
\* operation: when Start, StopFail or Stop fails, Create returns that very
\* error (not the wrapped API error), and no call at all follows it: no API
\* call for the dictionary or item that was started, none after a failed
\* Stop, and no deletion of what was created.
C23_SpinnerFailureSupersedes ==
    [][/\ (AddsCall /\ Added.op \in SpinnerOps /\ Added.res # "nil") =>
              /\ createRet' = Plain(Added.res)
              /\ dpc' = "idle"
       /\ SpinnerFailedLast => (calls' = calls /\ createRet' = createRet)]_vars

\* Stop failed after the first dictionary was created, its items and the
\* second dictionary were not
C23_Witness ==
    /\ Len(required) = 2
    /\ Len(required[1].Items) > 0
    /\ Len(calls) >= 3
    /\ calls[Len(calls)] = [op |-> "Stop", res |-> "spinErr"]
    /\ calls[Len(calls) - 1].op = "CreateDictionary"
    /\ calls[Len(calls) - 1].res = "nil"
    /\ CallsOf("CreateDictionary") = {Len(calls) - 1}
    /\ createRet = Plain("spinErr")
    /\ dpc = "idle"

\* the positions of the create-dictionary calls made so far
DictCalls == {k \in 1..Len(calls) : calls[k].op = "CreateDictionary"}

\* the position of the last create-dictionary call, 0 if there is none
LastDictCall ==
    IF DictCalls = {} THEN 0
    ELSE CHOOSE k \in DictCalls : \A m \in DictCalls : m <= k

\* the positions of the create-item calls made since the last
\* create-dictionary call
ItemCallsSince ==
    {k \in (LastDictCall + 1)..Len(calls) : calls[k].op = "CreateDictionaryItem"}

\* C24: Create processes d.required in list order. A create-dictionary call
\* is for the next record of the list and is made only after every item of
\* the record before it was created; a create-item call is for the next item
\* of the record whose dictionary was created last, follows the success of
\* that create-dictionary call, and carries the identifier that call
\* returned, which no other dictionary has, and the configured service ID.
C24_ListOrderAndOwnIdentifier ==
    [][AddsCall =>
          LET n == Cardinality(DictCalls)
              m == Cardinality(ItemCallsSince)
          IN /\ Added.op = "CreateDictionary" =>
                    /\ n + 1 <= Len(required)
                    /\ Added.Name = required[n + 1].Name
                    /\ Added.ServiceID = d.ServiceID
                    /\ Added.ServiceVersion = d.ServiceVersion
                    /\ n > 0 =>
                           /\ calls[LastDictCall].res = "nil"
                           /\ m = Len(required[n].Items)
                           /\ \A k \in ItemCallsSince : calls[k].res = "nil"
             /\ Added.op = "CreateDictionaryItem" =>
                    /\ n > 0
                    /\ calls[LastDictCall].res = "nil"
                    /\ \A k \in ItemCallsSince : calls[k].res = "nil"
                    /\ m + 1 <= Len(required[n].Items)
                    /\ Added.ItemKey = required[n].Items[m + 1].Key
                    /\ Added.ItemValue = required[n].Items[m + 1].Value
                    /\ Added.DictionaryID = calls[LastDictCall].id
                    /\ \A k \in DictCalls \ {LastDictCall} :
                           calls[k].id # Added.DictionaryID
                    /\ Added.ServiceID = d.ServiceID]_vars

\* two dictionaries with items were created, the items of each under the
\* identifier of their own dictionary
C24_Witness ==
    /\ createRet = Nil
    /\ Len(required) = 2
    /\ \E k1, k2 \in CallsOf("CreateDictionaryItem") :
           /\ k1 < k2
           /\ calls[k1].DictionaryID = 1
           /\ calls[k2].DictionaryID = 2
           /\ \E kd \in CallsOf("CreateDictionary") :
                  k1 < kd /\ kd < k2 /\ calls[kd].id = 2

----------------------------------------------------------------------------
(* API input: properties *)

\* C25: in healthcheck create, healthcheck update and azure-blob update, an
\* optional field of the API input is non-nil exactly if the corresponding
\* flag's WasSet is true, and then it holds the flag's value, the zero value
\* and the empty string included; a flag that was not supplied places
\* nothing in the request.
C25_PresentIffWasSet ==
    ipc = "built" =>
        \A a \in Assignments(ikind) :
            /\ input[a[2]].present <=> iflags[a[1]].WasSet
            /\ input[a[2]].present => input[a[2]].value = iflags[a[1]].Value

\* azure-blob update with --path "" and --period 0: both are in the request
\* with those values, no other field is
C25_Witness ==
    /\ ikind = "logging azureblob update"
    /\ ipc = "built"
    /\ iflags["Path"] = [WasSet |-> TRUE, Value |-> ""]
    /\ iflags["Period"] = [WasSet |-> TRUE, Value |-> 0]
    /\ input["Path"] = PointerTo("")
    /\ input["Period"] = PointerTo(0)
    /\ input["NewName"] = Absent

----------------------------------------------------------------------------
(* Resource commands: dictionary-entry update *)

\* the service of dictionary-entry update was resolved
ServiceIDResolved ==
    /\ rcalls # <<>>
    /\ rcalls[1] = [op |-> "ServiceID", res |-> "nil"]

\* C26: dictionary-entry update issues one kind of mutation per invocation.
\* With --file it never calls UpdateDictionaryItem, and with a file of zero
\* items it makes no batch call and returns an error; without --file it
\* makes no batch call, calls UpdateDictionaryItem only when key and value
\* are both non-empty, and otherwise returns a user-input error without any
\* mutation call.
C26_OneKindOfMutation ==
    rcmd.kind = "dictionary-entry update" =>
        /\ Cardinality(CmdAPICalls) <= 1
        /\ rcmd.file =>
               /\ \A k \in CmdAPICalls : rcalls[k].op = "BatchModifyDictionaryItems"
               /\ rcmd.items = 0 =>
                      /\ CmdAPICalls = {}
                      /\ rpc = "done" => rret.kind = "error"
        /\ ~rcmd.file =>
               /\ \A k \in CmdAPICalls : rcalls[k].op = "UpdateDictionaryItem"
               /\ (rcmd.key = "" \/ rcmd.value = "") =>
                      /\ CmdAPICalls = {}
                      /\ (rpc = "done" /\ ServiceIDResolved) =>
                             rret = Plain("an empty value is not allowed")

\* --file, --key and --value together, and the file holds no item: the file
\* was decoded, no mutation was called
C26_Witness ==
    /\ rcmd.kind = "dictionary-entry update"
    /\ rcmd.file
    /\ rcmd.key # ""
    /\ rcmd.value # ""
    /\ rcmd.items = 0
    /\ rpc = "done"
    /\ ServiceIDResolved
    /\ rret = Plain("item key not found in file")
    /\ CmdAPICalls = {}

\* C30: when dictionary-entry update runs with --file and fails because the
\* file cannot be opened, read or decoded, or because the batch API call
\* fails, that error is in the diagnostic log exactly once.
C30_BatchErrorLoggedOnce ==
    (/\ rcmd.kind = "dictionary-entry update"
     /\ rcmd.file
     /\ rpc = "done"
     /\ rret.kind = "error"
     /\ rret.err \in FileErrors \cup APIErrors) =>
        Cardinality({i \in 1..Len(rlog) : rlog[i].err = rret.err}) = 1

----------------------------------------------------------------------------
(* Publish: frame of a failed build *)

\* C28: if the build phase fails, every field of the deploy command is what
\* it was before PublishCommand.Exec was called; the deploy fields are
\* written only after build has succeeded.
C28_DeployUntouchedOnBuildFailure ==
    /\ buildErr \in Errors => deploy = deploy0
    /\ deploy # deploy0 => buildErr = "nil"

\* the build failed on a command line whose flags would have changed the
\* deploy command
C28_Witness ==
    /\ ppc = "done"
    /\ buildErr \in Errors
    /\ "domain" \in supplied
    /\ CopyDeployFields(c, deploy0) # deploy0
    /\ deploy = deploy0

----------------------------------------------------------------------------
(* Dictionaries: the Spinner around each API call *)

\* in the list of calls cs a Spinner was started and has not been stopped:
\* the last call is a successful Start or the API call that followed it
SpinnerOpen(cs) ==
    /\ cs # <<>>
    /\ \/ cs[Len(cs)].op = "Start" /\ cs[Len(cs)].res = "nil"
       \/ cs[Len(cs)].op \in CreateOps

\* C27: in Create every successful Start is followed by exactly one Stop or
\* StopFail before the next Start and before Create returns, and every
\* create-dictionary or create-item call lies between a successful Start and
\* its Stop (after a success of the API call) or StopFail (after a failure).
C27_SpinnerBrackets ==
    [][/\ AddsCall =>
              /\ Added.op = "Start" => ~SpinnerOpen(calls)
              /\ Added.op \in CreateOps =>
                     /\ calls # <<>>
                     /\ calls[Len(calls)].op = "Start"
                     /\ calls[Len(calls)].res = "nil"
              /\ Added.op = "Stop" =>
                     /\ calls # <<>>
                     /\ calls[Len(calls)].op \in CreateOps
                     /\ calls[Len(calls)].res = "nil"
              /\ Added.op = "StopFail" =>
                     /\ calls # <<>>
                     /\ calls[Len(calls)].op \in CreateOps
                     /\ calls[Len(calls)].res # "nil"
       /\ (dpc \in CreatePositions /\ dpc' = "idle") => ~SpinnerOpen(calls')
       /\ SpinnerOpen(calls) => AddsCall]_vars

\* a dictionary was created and stopped, its item failed and was stopped
\* with StopFail: two Starts, one Stop, one StopFail
C27_Witness ==
    /\ dpc = "idle"
    /\ createRet.kind = "wrapped"
    /\ Len(calls) >= 6
    /\ LET n == Len(calls)
       IN /\ calls[n] = [op |-> "StopFail", res |-> "nil"]
          /\ calls[n - 1].op = "CreateDictionaryItem"
          /\ calls[n - 1].res \in APIErrors
          /\ calls[n - 2] = [op |-> "Start", res |-> "nil"]
          /\ calls[n - 3] = [op |-> "Stop", res |-> "nil"]
          /\ calls[n - 4].op = "CreateDictionary"
          /\ calls[n - 5] = [op |-> "Start", res |-> "nil"]

----------------------------------------------------------------------------
(* Dictionaries: the records of d.required *)

\* every record names a declared dictionary that no other record names, and
\* holds one item for each declared item of it, under the declared keys
RecordsComplete ==
    \A i \in 1..Len(required) :
        LET rec == required[i]
        IN /\ rec.Name \in DOMAIN d.Setup
           /\ \A j \in 1..Len(required) : required[j].Name = rec.Name => j = i
           /\ Len(rec.Items) = Cardinality(DOMAIN d.Setup[rec.Name])
           /\ {rec.Items[j].Key : j \in 1..Len(rec.Items)} = DOMAIN d.Setup[rec.Name]

\* C29: after one call of Configure, with or without error, every record of
\* the resolved list names a distinct declared dictionary and holds exactly
\* one item per declared item, with the declared keys; a dictionary whose
\* prompting failed contributes no record, and the records of the
\* dictionaries resolved before the failure stay in the list.
C29_RecordsCompleteOrAbsent ==
    /\ []RecordsComplete
    /\ [][/\ (AddsCall /\ Added.op = "Input" /\ Added.res # "nil") =>
                 /\ required' = required
                 /\ \A i \in 1..Len(required) : required[i].Name # Added.name
          /\ \/ required' = required
             \/ /\ Len(required') = Len(required) + 1
                /\ SubSeq(required', 1, Len(required)) = required]_vars

\* the first dictionary was resolved with its items, the prompt for the
\* second item of the other dictionary failed
C29_Witness ==
    /\ dpc = "idle"
    /\ configureRet.kind = "wrapped"
    /\ Len(required) = 1
    /\ Len(required[1].Items) > 0
    /\ Len(calls) >= 3
    /\ calls[Len(calls)].op = "Input"
    /\ calls[Len(calls)].res \in InputErrors
    /\ calls[Len(calls) - 1].op = "Input"
    /\ calls[Len(calls) - 1].name = calls[Len(calls)].name
    /\ calls[Len(calls)].name # required[1].Name

====
